---- MODULE Spec2Model ----
(***************************************************************************)
(* Token-creation pipeline of the Arena token tracker: the poller's two    *)
(* deferred deliveries per creation transaction (lib/blockchain.ts), the   *)
(* dispatcher processTokenCreation with its post caches and the persisted  *)
(* posted flags (lib/database-simple.ts), the Discord retry wrapper        *)
(* (lib/discord-socials.ts) and the tier rule.                             *)
(*                                                                         *)
(* JavaScript runs one callback at a time, so every action below is the    *)
(* code that runs from the completion of one await to the next await.      *)
(***************************************************************************)
EXTENDS Integers, Sequences, FiniteSets, TLC

----------------------------------------------------------------------------
(* Bounds of the model *)

\* number of processTokenCreation runs started in one behaviour
MaxRuns == 2
\* number of clock steps (each one CACHE_DURATION)
MaxNow == 1
\* largest contracts_created of the creator row the store starts with
MaxInitialContracts == 1
\* calls of monitorContract in one behaviour
MaxTicks == 2
\* the chain head when the process starts, and the highest block
FirstHead == 2
MaxBlock == 3
\* creation transactions the poller notifies in one behaviour
MaxDetections == 4
\* length of the subscriber list
MaxSubscribers == 2
\* calls of fetchArenaUserProfile in one behaviour
MaxResolves == 2
\* largest contracts_created the creator updates reach
MaxContracts == 3
\* largest maxRetries passed to fetchWithRetry
MaxMaxRetries == 4
\* longest list of creators resolved in one batch
MaxAddresses == 4

----------------------------------------------------------------------------
(* Program constants *)

\* database-simple.ts:29  24 * 60 * 60 * 1000
CACHE_DURATION == 86400000
\* discord-socials.ts: maxRetries = 2
DiscordMaxRetries == 2
\* database-simple.ts:297  followers >= 5000
FollowerThreshold == 5000

\* arena-socials.ts:71  Math.min(1000 * Math.pow(2, attempt - 1), 3000)
RetryBaseDelay == 1000
RetryMaxDelay == 3000
\* arena-socials.ts:44  timeoutMs = 10000 + attempt * 2000
AttemptTimeoutBase == 10000
AttemptTimeoutStep == 2000

\* arena-socials.ts:532  const batchSize = 3
batchSize == 3

\* granularity of the modelled clock
TickStep == CACHE_DURATION

----------------------------------------------------------------------------
(* JavaScript values *)

\* null / undefined results of calls that return an object or nothing
Null == [null |-> TRUE]

IsNull(v) == v = Null

\* o.f of an object with optional fields; a missing field reads as dflt
Field(o, f, dflt) == IF f \in DOMAIN o THEN o[f] ELSE dflt

\* String.prototype.toLowerCase on the strings of the model
ToLowerCase(s) ==
  CASE s = "0xAB" -> "0xab"
    [] s = "0xCD" -> "0xcd"
    [] s = "MYT" -> "myt"
    [] s = "Abc" -> "abc"
    [] s = "OLD" -> "old"
    [] s = "0x8315f1eb449Dd4B779495C3A0b05e5d194446c6e" ->
         "0x8315f1eb449dd4b779495c3a0b05e5d194446c6e"
    [] OTHER -> s

----------------------------------------------------------------------------
(* Wei amounts.  keyPrice is a decimal string of an integer number of wei. *)
(* It is held as <<hi, lo>> = hi * 10^9 + lo, with 0 <= lo < 10^9.         *)

Giga == 10^9

WeiGE(a, b) == \/ a[1] > b[1]
               \/ a[1] = b[1] /\ a[2] >= b[2]

\* 2^53 .. 2^60 as wei amounts: the binades above the exact-integer range
Pow2Wei == << <<9007199, 254740992>>, <<18014398, 509481984>>,
              <<36028797, 18963968>>, <<72057594, 37927936>>,
              <<144115188, 75855872>>, <<288230376, 151711744>>,
              <<576460752, 303423488>>, <<1152921504, 606846976>> >>

RECURSIVE Pow2(_)
Pow2(n) == IF n = 0 THEN 1 ELSE 2 * Pow2(n - 1)

\* spacing of the doubles around the amount w (w < 2^61)
Ulp(w) == Pow2(Cardinality({i \in 1..Len(Pow2Wei) : WeiGE(w, Pow2Wei[i])}))

\* Number(keyPrice): the nearest double, ties to the even significand.
\* 10^9 is a multiple of 2 * Ulp(w), so the remainder and the parity of the
\* significand of w are those of lo.
NumberOfWei(w) ==
  LET u == Ulp(w)
      r == w[2] % u
      down == w[2] - r
      up == down + u
      even == (w[2] \div u) % 2 = 0
      lo == IF 2 * r < u \/ (2 * r = u /\ even) THEN down ELSE up
  IN IF lo >= Giga THEN <<w[1] + 1, lo - Giga>> ELSE <<w[1], lo>>

\* 1.5 * 10^18 wei; it is a multiple of 256, hence a double
OneAndHalfAvax == <<1500000000, 0>>

\* Number(keyPrice) / 1e18 >= 1.5.  The quotient of a double d in
\* [2^60, 2^61) by 1e18 rounds to a double >= 1.5 iff d >= 1.5e18 - 111,
\* and d is a multiple of 256, so the test is d >= 1.5e18.
TicketPriceAtLeastOneAndHalf(keyPrice) ==
  WeiGE(NumberOfWei(keyPrice), OneAndHalfAvax)

----------------------------------------------------------------------------
(* Tier rule: database-simple.ts:290-300 and discord-post/route.ts:189-206 *)

\* a profile is a record with only the fields that are present

\* arenaProfile.isArenaChampion as a condition
IsArenaChampion(p) == "isArenaChampion" \in DOMAIN p /\ p.isArenaChampion = TRUE

\* arenaProfile.followerCount || 0
Followers(p) == Field(p, "followerCount", 0)

\* arenaProfile.keyPrice ? Number(arenaProfile.keyPrice) / 1e18 : 0, >= 1.5
\* (a decimal string, "0" included, is truthy)
TicketPriceQualifies(p) ==
  "keyPrice" \in DOMAIN p /\ TicketPriceAtLeastOneAndHalf(p.keyPrice)

\* postType of processTokenCreation
PostType(p) ==
  IF IsArenaChampion(p) THEN "champion"
  ELSE IF Followers(p) >= FollowerThreshold \/ TicketPriceQualifies(p)
       THEN "heavy-hitter"
       ELSE "regular"

\* channel choice of the Discord route: isChampion is the caller's
\* arenaProfile.isArenaChampion || false
RouteTier(isChampion, p) ==
  IF isChampion THEN "champion"
  ELSE IF Followers(p) >= FollowerThreshold \/ TicketPriceQualifies(p)
       THEN "heavy-hitter"
       ELSE "regular"

----------------------------------------------------------------------------
(* Post caches: database-simple.ts:26-87 *)

createArenaPostCacheKey(transactionHash, walletAddress, symbol) ==
  <<"arena-post", transactionHash, ToLowerCase(walletAddress), ToLowerCase(symbol)>>

createDiscordPostCacheKey(transactionHash, walletAddress, symbol) ==
  <<"discord-post", transactionHash, ToLowerCase(walletAddress), ToLowerCase(symbol)>>

\* new Map()
EmptyMap == [x \in {} |-> Null]

\* Map.set
MapSet(m, k, v) == [x \in DOMAIN m \cup {k} |-> IF x = k THEN v ELSE m[x]]

\* Map.delete
MapDelete(m, k) == [x \in DOMAIN m \ {k} |-> m[x]]

\* value returned by wasArenaPostAlreadySent / wasDiscordPostAlreadySent
WasPostAlreadySent(cache, cacheKey, t) ==
  /\ cacheKey \in DOMAIN cache
  /\ t - cache[cacheKey].timestamp < CACHE_DURATION
  /\ cache[cacheKey].posted

\* cache left behind by wasArenaPostAlreadySent / wasDiscordPostAlreadySent
CacheAfterLookup(cache, cacheKey, t) ==
  IF cacheKey \in DOMAIN cache /\ ~(t - cache[cacheKey].timestamp < CACHE_DURATION)
  THEN MapDelete(cache, cacheKey)
  ELSE cache

\* markArenaPostAsSent / markDiscordPostAsSent
MarkPostAsSent(cache, cacheKey, postType, t) ==
  MapSet(cache, cacheKey, [posted |-> TRUE, timestamp |-> t, postType |-> postType])

----------------------------------------------------------------------------
(* Strings that the code takes apart: a sequence of one-character strings  *)

UpperCaseLetters ==
  <<"A", "B", "C", "D", "E", "F", "G", "H", "I", "J", "K", "L", "M",
    "N", "O", "P", "Q", "R", "S", "T", "U", "V", "W", "X", "Y", "Z">>

LowerCaseLetters ==
  <<"a", "b", "c", "d", "e", "f", "g", "h", "i", "j", "k", "l", "m",
    "n", "o", "p", "q", "r", "s", "t", "u", "v", "w", "x", "y", "z">>

\* toLowerCase of one character
LowerChar(c) ==
  IF \E i \in 1..Len(UpperCaseLetters) : UpperCaseLetters[i] = c
  THEN LowerCaseLetters[CHOOSE i \in 1..Len(UpperCaseLetters) : UpperCaseLetters[i] = c]
  ELSE c

\* String.prototype.toLowerCase
toLowerCase(s) == [i \in 1..Len(s) |-> LowerChar(s[i])]

\* String.prototype.includes
includes(s, sub) ==
  \E i \in 0..(Len(s) - Len(sub)) : SubSeq(s, i + 1, i + Len(sub)) = sub

\* "0x" followed by the given characters
Hex(digits) == <<"0", "x">> \o digits

----------------------------------------------------------------------------
(* Classification: blockchain.ts:77-157 and 250-294 *)

METHOD_SIGNATURES ==
  { [key |-> Hex(<<"0", "b", "8", "c", "6", "f", "e", "c">>), name |-> "createToken",
     type |-> "TOKEN_CREATION", description |-> "Create new token"],
    [key |-> Hex(<<"3", "0", "f", "5", "1", "a", "4", "6">>), name |-> "createToken",
     type |-> "TOKEN_CREATION", description |-> "Create new token"],
    [key |-> Hex(<<"5", "a", "4", "6", "f", "0", "6", "c">>), name |-> "createLP",
     type |-> "ADD_LIQUIDITY", description |-> "Add initial liquidity"],
    [key |-> Hex(<<"e", "8", "e", "3", "3", "7", "0", "0">>), name |-> "addLiquidity",
     type |-> "ADD_LIQUIDITY", description |-> "Add liquidity to pool"],
    [key |-> Hex(<<"b", "a", "a", "2", "a", "b", "d", "e">>), name |-> "removeLiquidity",
     type |-> "REMOVE_LIQUIDITY", description |-> "Remove liquidity from pool"],
    [key |-> Hex(<<"a", "6", "f", "2", "a", "e", "3", "a">>), name |-> "buy",
     type |-> "BUY", description |-> "Buy tokens with AVAX"],
    [key |-> Hex(<<"7", "f", "f", "3", "6", "a", "b", "5">>), name |-> "sell",
     type |-> "SELL", description |-> "Sell tokens for AVAX"],
    [key |-> Hex(<<"3", "8", "e", "d", "1", "7", "3", "9">>), name |-> "swapExactTokensForETH",
     type |-> "SELL", description |-> "Swap tokens for AVAX"],
    [key |-> Hex(<<"7", "c", "0", "2", "5", "2", "0", "0">>), name |-> "swapETHForExactTokens",
     type |-> "BUY", description |-> "Swap AVAX for tokens"],
    [key |-> Hex(<<"0", "9", "5", "e", "a", "7", "b", "3">>), name |-> "approve",
     type |-> "APPROVE", description |-> "Approve token spending"],
    [key |-> Hex(<<"a", "9", "0", "5", "9", "c", "b", "b">>), name |-> "transfer",
     type |-> "TRANSFER", description |-> "Transfer tokens"],
    [key |-> Hex(<<"2", "3", "b", "8", "7", "2", "d", "d">>), name |-> "transferFrom",
     type |-> "TRANSFER", description |-> "Transfer tokens from address"],
    [key |-> Hex(<<"2", "e", "1", "a", "7", "d", "4", "d">>), name |-> "withdraw",
     type |-> "SELL", description |-> "Withdraw AVAX"],
    [key |-> Hex(<<"d", "0", "e", "3", "0", "d", "b", "0">>), name |-> "deposit",
     type |-> "BUY", description |-> "Deposit AVAX"] }

\* METHOD_SIGNATURES[methodId] of a "0x..." string: the entry, or undefined
MethodInfo(methodId) ==
  IF \E e \in METHOD_SIGNATURES : e.key = methodId
  THEN CHOOSE e \in METHOD_SIGNATURES : e.key = methodId
  ELSE Null

\* Number(value) / 1e18 > 0 for the decimal string of a wei amount
ValueInAvaxPositive_Never(value) == FALSE
ValueInAvaxPositive(value) == NumberOfWei(value) # <<0, 0>>

\* determineTransactionType(methodId, value); the method of the result is
\* [name |-> ...] for a name of the code and [text |-> methodId] for the
\* caller's string
determineTransactionType(methodId, value) ==
  LET methodInfo == MethodInfo(methodId)
      methodIdLower == toLowerCase(methodId)
  IN IF ~IsNull(methodInfo)
     THEN [type |-> methodInfo.type, description |-> methodInfo.description,
           method |-> [name |-> methodInfo.name]]
     ELSE IF \/ includes(methodIdLower, <<"c", "r", "e", "a", "t", "e">>)
             \/ includes(methodIdLower, <<"t", "o", "k", "e", "n">>)
          THEN [type |-> "TOKEN_CREATION", description |-> "Possible token creation",
                method |-> [name |-> "unknown_create"]]
          ELSE IF ValueInAvaxPositive(value)
               THEN [type |-> "BUY", description |-> "Buy transaction (AVAX sent)",
                     method |-> [name |-> "unknown_buy"]]
               ELSE [type |-> "UNKNOWN", description |-> "Unknown transaction type",
                     \* methodId || "unknown"
                     method |-> IF methodId = <<>> THEN [name |-> "unknown"]
                                ELSE [text |-> methodId]]

----------------------------------------------------------------------------
(* The chain's creation transactions.  A hash fixes the sender and the     *)
(* call data, hence the decoded token metadata.                            *)

Hashes == {"0xh1", "0xh2", "0xh3", "0xh4"}

ChainTx(h) ==
  CASE h = "0xh1" -> [hash |-> h, from |-> "0xAB", hasMeta |-> TRUE, symbol |-> "MYT"]
    [] h = "0xh2" -> [hash |-> h, from |-> "0xAB", hasMeta |-> TRUE, symbol |-> "Abc"]
    [] h = "0xh3" -> [hash |-> h, from |-> "0xAB", hasMeta |-> FALSE, symbol |-> ""]
    [] h = "0xh4" -> [hash |-> h, from |-> "0xAB", hasMeta |-> TRUE, symbol |-> ""]

\* results of fetchArenaUserProfile: null, or a profile object
Profiles ==
  { Null,
    [displayName |-> "anon", isArenaChampion |-> FALSE],
    [username |-> "alice", isArenaChampion |-> FALSE, followerCount |-> 10,
     keyPrice |-> <<0, 0>>],
    [username |-> "alice", isArenaChampion |-> FALSE, followerCount |-> 5000],
    [username |-> "alice", isArenaChampion |-> TRUE, followerCount |-> 10] }

----------------------------------------------------------------------------
(* State *)

VARIABLES
  now,                    \* Date.now()
  arenaPostCache,         \* database-simple.ts:27
  discordPostCache,       \* database-simple.ts:28
  contract_transactions,  \* table: hash -> row
  creators,               \* table: wallet_address -> row
  runs,                   \* the processTokenCreation calls, in start order
  timers,                 \* pending setTimeout(..., 0) of notifyCallbacks
  profileFetches,         \* fetchCreatorProfile promises of the poller in flight
  detections,             \* creation transactions the poller has seen
  tierProfile,            \* the profile a tier is computed for
  tierPostType,           \* postType of processTokenCreation for it
  tierChannel,            \* channel chosen by the Discord route for it
  env,                    \* the webhook variables of the environment that are set
  webhookUrl,             \* webhookUrl of the Discord route's POST
  delivered,              \* <<callback, detection, threw>>: callback(transaction) was called
  isMonitoring,           \* blockchain.ts:160
  lastProcessedBlock,     \* blockchain.ts:161
  monitoringCallbacks,    \* blockchain.ts:162
  monitoringTimeout,      \* blockchain.ts:163: a timer handle, 0 for null
  pendingTimeouts,        \* handles of the timers of monitorContract not yet fired
  ticks,                  \* the calls of monitorContract that got past line 319
  chainHead,              \* the chain's latest block number
  scanned,                \* hashes of the transactions that passed line 347
  unsubscribe,            \* per callback: was subscribe's function returned, called
  userProfileCache,       \* arena-socials.ts:32
  resolves,               \* the calls of fetchArenaUserProfile, in start order
  callArgs,               \* the arguments of a call of a pure function
  callResult              \* and what the call returned

vars == <<now, arenaPostCache, discordPostCache, contract_transactions, creators,
          runs, timers, profileFetches, detections,
          tierProfile, tierPostType, tierChannel, env, webhookUrl,
          delivered, isMonitoring, lastProcessedBlock, monitoringCallbacks,
          monitoringTimeout, pendingTimeouts, ticks, chainHead, scanned, unsubscribe,
          userProfileCache, resolves, callArgs, callResult>>

dbVars == <<contract_transactions, creators>>
cacheVars == <<arenaPostCache, discordPostCache>>
pollerVars == <<timers, profileFetches, detections, delivered>>
monitorVars == <<isMonitoring, lastProcessedBlock, monitoringCallbacks, monitoringTimeout,
                 pendingTimeouts, ticks, chainHead, scanned, unsubscribe>>
tierVars == <<tierProfile, tierPostType, tierChannel>>
routeVars == <<env, webhookUrl>>
pipelineVars == <<now, cacheVars, dbVars, runs, pollerVars>>
\* what the pipeline's actions leave alone
resolverVars == <<userProfileCache, resolves>>
callVars == <<callArgs, callResult>>
pureVars == <<tierVars, routeVars, callVars>>
otherVars == <<pureVars, monitorVars, resolverVars>>

NoId == "null"

\* rows the store may hold for the modelled wallet before the process starts
InitialCreators ==
  {EmptyMap} \cup
  { [w \in {"0xAB"} |->
       [id |-> w, contracts_created |-> n,
        contract_tickers |-> <<[symbol |-> "OLD", transaction_hash |-> "0xh0"]>>]]
    : n \in 1..MaxInitialContracts }

InitPipeline ==
  /\ now = 0
  /\ arenaPostCache = EmptyMap
  /\ discordPostCache = EmptyMap
  /\ contract_transactions = EmptyMap
  /\ creators \in InitialCreators
  /\ runs = <<>>
  /\ timers = <<>>
  /\ profileFetches = {}
  /\ detections = <<>>
  /\ delivered = {}

\* the functions a component may subscribe
Callbacks == {"a", "b"}

\* blockchain.ts:160-163: the poller at module load
InitMonitorIdle ==
  /\ isMonitoring = FALSE
  /\ lastProcessedBlock = 0
  /\ monitoringCallbacks = <<>>
  /\ monitoringTimeout = 0
  /\ pendingTimeouts = {}
  /\ ticks = <<>>
  /\ chainHead = FirstHead
  /\ scanned = {}
  /\ unsubscribe = [c \in Callbacks |-> "none"]

\* arena-socials.ts:32: the resolver at module load
InitResolverIdle ==
  /\ userProfileCache = EmptyMap
  /\ resolves = <<>>

\* no call of a pure function under way
InitNoCall ==
  /\ callArgs = Null
  /\ callResult = Null

\* the webhook variables of lib/env
WebhookNames ==
  {"DISCORD_WEBHOOK_CHAMPIONS", "DISCORD_WEBHOOK_HEAVY_HITTERS", "DISCORD_WEBHOOK_GENERAL"}

\* no tier computed, every webhook configured
InitTierIdle ==
  /\ tierProfile = Null
  /\ tierPostType = "none"
  /\ tierChannel = "none"
  /\ env = WebhookNames
  /\ webhookUrl = "none"

Init ==
  /\ InitPipeline
  /\ InitTierIdle
  /\ InitMonitorIdle
  /\ InitResolverIdle
  /\ InitNoCall

----------------------------------------------------------------------------
(* processTokenCreation: database-simple.ts:197-382 *)

\* the slots of the calls of one behaviour
RunIds == 1..MaxRuns

Done(r) == runs[r].pc = "done"

ArenaKey(t) == createArenaPostCacheKey(t.hash, t.from, t.symbol)
DiscordKey(t) == createDiscordPostCacheKey(t.hash, t.from, t.symbol)

\* the call and its synchronous prefix (lines 198-225)
NewRun(t, origin) ==
  [tx |-> t,
   pc |-> IF ~t.hasMeta \/ t.symbol = "" THEN "done" ELSE "selectTx",
   arenaAlreadySent |-> FALSE,
   discordAlreadySent |-> FALSE,
   transactionId |-> NoId,
   both |-> FALSE,
   creator |-> Null,
   creatorId |-> NoId,
   contracts |-> 0,
   resolved |-> FALSE,
   postType |-> "none",
   attempt |-> 0,
   \* history of the run
   origin |-> origin,
   profileCalls |-> 0,
   arenaCalls |-> 0,
   discordCalls |-> 0,
   arenaPosted |-> FALSE,
   discordPosted |-> FALSE,
   arenaFlagErr |-> FALSE,
   discordFlagErr |-> FALSE]

\* a call of processTokenCreation with the transaction of hash h; ts tells
\* whether the caller's object carries a timestamp
Invoke(h, ts) ==
  /\ Len(runs) + Len(timers) + Cardinality(profileFetches) < MaxRuns
  /\ runs' = Append(runs, NewRun(ChainTx(h) @@ [hasTimestamp |-> ts], 0))
  /\ UNCHANGED <<now, cacheVars, dbVars, pollerVars, otherVars>>

SetRun(r, rec) == runs' = [runs EXCEPT ![r] = rec]

\* lines 221-253: the select on contract_transactions returns
TxStatusSelected(r, err) ==
  /\ r \in 1..Len(runs) /\ runs[r].pc = "selectTx"
  /\ LET t == runs[r].tx
         found == ~err /\ t.hash \in DOMAIN contract_transactions
     IN IF found
        THEN LET txData == contract_transactions[t.hash]
                 a == txData.posted_to_arena
                 d == txData.posted_to_discord
             IN /\ arenaPostCache' =
                     IF a THEN MarkPostAsSent(arenaPostCache, ArenaKey(t), "db", now)
                          ELSE arenaPostCache
                /\ discordPostCache' =
                     IF d THEN MarkPostAsSent(discordPostCache, DiscordKey(t), "db", now)
                          ELSE discordPostCache
                /\ SetRun(r, [runs[r] EXCEPT !.transactionId = txData.id,
                                             !.arenaAlreadySent = a,
                                             !.discordAlreadySent = d,
                                             !.both = a /\ d,
                                             !.pc = "addCreatorSelect"])
        ELSE /\ SetRun(r, [runs[r] EXCEPT !.pc = "saveTx"])
             /\ UNCHANGED cacheVars
  /\ UNCHANGED <<now, dbVars, pollerVars, otherVars>>

\* upsert(..., {onConflict: "hash"}): the insert names no posted_to_* column,
\* so a row that exists keeps its flags
UpsertTransaction(table, h) ==
  IF h \in DOMAIN table THEN table
  ELSE MapSet(table, h, [id |-> h, posted_to_arena |-> FALSE, posted_to_discord |-> FALSE])

\* saveContractTransaction, lines 659-706: new Date(undefined).toISOString()
\* throws, which the function catches and turns into null
saveContractTransaction(r, err) ==
  /\ r \in 1..Len(runs) /\ runs[r].pc = "saveTx"
  /\ LET t == runs[r].tx
         ok == t.hasTimestamp /\ ~err
     IN /\ contract_transactions' =
             IF ok THEN UpsertTransaction(contract_transactions, t.hash)
                   ELSE contract_transactions
        /\ SetRun(r, [runs[r] EXCEPT !.transactionId = IF ok THEN t.hash ELSE NoId,
                                     !.pc = "addCreatorSelect"])
  /\ UNCHANGED <<now, cacheVars, creators, pollerVars, otherVars>>

\* lines 242-263 and 377 once addCreatorContract has returned id
AfterAddCreator(rec, id) ==
  [rec EXCEPT !.creatorId = id,
              !.pc = IF rec.both \/ id = NoId THEN "done" ELSE "getCreator"]

\* existingTickers of addCreatorContract, lines 136-147
ExistingTickers(creator, symbol, h) ==
  IF \E i \in 1..Len(creator.contract_tickers) : creator.contract_tickers[i].symbol = symbol
  THEN creator.contract_tickers
  ELSE Append(creator.contract_tickers, [symbol |-> symbol, transaction_hash |-> h])

\* addCreatorContract, lines 98-109: the select on creators returns
addCreatorContractSelected(r, err) ==
  /\ r \in 1..Len(runs) /\ runs[r].pc = "addCreatorSelect"
  /\ LET t == runs[r].tx
     IN IF err
        THEN SetRun(r, AfterAddCreator(runs[r], NoId))
        ELSE IF t.from \in DOMAIN creators
             THEN SetRun(r, [runs[r] EXCEPT !.creator = creators[t.from],
                                            !.pc = "addCreatorUpdate"])
             ELSE SetRun(r, [runs[r] EXCEPT !.pc = "addCreatorInsert"])
  /\ UNCHANGED <<now, cacheVars, dbVars, pollerVars, otherVars>>

\* addCreatorContract, lines 111-133: the insert returns; wallet_address is
\* UNIQUE, so the insert of a wallet that has a row by now is an error
addCreatorContractInserted(r, err) ==
  /\ r \in 1..Len(runs) /\ runs[r].pc = "addCreatorInsert"
  /\ LET t == runs[r].tx
         ok == ~err /\ t.from \notin DOMAIN creators
     IN /\ creators' =
             IF ok
             THEN MapSet(creators, t.from,
                         [id |-> t.from, contracts_created |-> 1,
                          contract_tickers |->
                            <<[symbol |-> t.symbol, transaction_hash |-> t.hash]>>])
             ELSE creators
        /\ SetRun(r, AfterAddCreator(runs[r], IF ok THEN t.from ELSE NoId))
  /\ UNCHANGED <<now, cacheVars, contract_transactions, pollerVars, otherVars>>

\* addCreatorContract, lines 149-167: the update returns
addCreatorContractUpdated(r, err) ==
  /\ r \in 1..Len(runs) /\ runs[r].pc = "addCreatorUpdate"
  /\ LET t == runs[r].tx
         creator == runs[r].creator
     IN /\ creators' =
             IF err THEN creators
             ELSE [creators EXCEPT ![t.from] =
                     [@ EXCEPT !.contracts_created = creator.contracts_created + 1,
                               !.contract_tickers =
                                  ExistingTickers(creator, t.symbol, t.hash)]]
        /\ SetRun(r, AfterAddCreator(runs[r], IF err THEN NoId ELSE creator.id))
  /\ UNCHANGED <<now, cacheVars, contract_transactions, pollerVars, otherVars>>

\* getCreator returns, lines 267-269 and 370-374
getCreator(r, err) ==
  /\ r \in 1..Len(runs) /\ runs[r].pc = "getCreator"
  /\ LET t == runs[r].tx
         found == ~err /\ t.from \in DOMAIN creators
         n == IF found THEN creators[t.from].contracts_created ELSE 0
     IN SetRun(r, [runs[r] EXCEPT !.contracts = n,
                                  !.pc = IF found /\ n > 1 THEN "fetchProfile" ELSE "done"])
  /\ UNCHANGED <<now, cacheVars, dbVars, pollerVars, otherVars>>

\* DiscordPart that posts to Discord only after a successful Arena post
DiscordPart_OnlyAfterArena(rec) ==
  IF ~rec.discordAlreadySent /\ rec.arenaPosted
  THEN [rec EXCEPT !.pc = "discordPost", !.attempt = 1]
  ELSE [rec EXCEPT !.pc = "done"]

\* lines 339-366: the Discord part, entered once the Arena part is over
DiscordPart(rec) ==
  IF ~rec.discordAlreadySent
  THEN [rec EXCEPT !.pc = "discordPost", !.attempt = 1]
  ELSE [rec EXCEPT !.pc = "done"]

\* ArenaDecision without the tier gate of line 306
ArenaDecision_NoTierGate(postType, arenaAlreadySent) ==
  IF ~arenaAlreadySent THEN "post" ELSE "skip"

\* lines 305-337: what is done about the Arena channel
ArenaDecision(postType, arenaAlreadySent) ==
  IF postType \in {"champion", "heavy-hitter"} /\ ~arenaAlreadySent THEN "post"
  ELSE IF postType = "regular" THEN "mark"
  ELSE "skip"

\* CacheAfterPost that marks the entry whatever the attempt returned
CacheAfterPost_MarksOnFailure(cache, cacheKey, postType, t, posted) ==
  MarkPostAsSent(cache, cacheKey, postType, t)

\* lines 317-318 and 352-353: the cache after a post attempt has returned
CacheAfterPost(cache, cacheKey, postType, t, posted) ==
  IF posted THEN MarkPostAsSent(cache, cacheKey, postType, t) ELSE cache

\* fetchArenaUserProfile returns, lines 275-337 up to the next await
fetchArenaUserProfile(r, arenaProfile) ==
  /\ r \in 1..Len(runs) /\ runs[r].pc = "fetchProfile"
  /\ LET t == runs[r].tx
         rec == [runs[r] EXCEPT !.profileCalls = @ + 1]
     IN IF ~IsNull(arenaProfile) /\ Field(arenaProfile, "username", "") # ""
        THEN LET postType == PostType(arenaProfile)
                 typed == [rec EXCEPT !.postType = postType, !.resolved = TRUE]
                 decision == ArenaDecision(postType, rec.arenaAlreadySent)
             IN IF decision = "post"
                THEN /\ SetRun(r, [typed EXCEPT !.pc = "arenaPost"])
                     /\ UNCHANGED arenaPostCache
                ELSE /\ arenaPostCache' =
                          IF decision = "mark"
                          THEN MarkPostAsSent(arenaPostCache, ArenaKey(t), postType, now)
                          ELSE arenaPostCache
                     /\ SetRun(r, DiscordPart(typed))
        ELSE /\ SetRun(r, [rec EXCEPT !.pc = "done"])
             /\ UNCHANGED arenaPostCache
  /\ UNCHANGED <<now, discordPostCache, dbVars, pollerVars, otherVars>>

\* postToArenaTimeline returns (one request to the post route), lines 308-330
postToArenaTimeline(r, posted) ==
  /\ r \in 1..Len(runs) /\ runs[r].pc = "arenaPost"
  /\ LET t == runs[r].tx
         rec == [runs[r] EXCEPT !.arenaCalls = @ + 1,
                                !.arenaPosted = posted]
     IN /\ arenaPostCache' =
             CacheAfterPost(arenaPostCache, ArenaKey(t), rec.postType, now, posted)
        /\ SetRun(r, IF posted /\ rec.transactionId # NoId
                     THEN [rec EXCEPT !.pc = "arenaFlag"]
                     ELSE DiscordPart(rec))
  /\ UNCHANGED <<now, discordPostCache, dbVars, pollerVars, otherVars>>

\* UpdatePostedFlag that sets the flags of both channels
UpdatePostedFlag_BothColumns(table, id, column, err) ==
  IF err \/ id \notin DOMAIN table THEN table
  ELSE [table EXCEPT ![id] = [@ EXCEPT !.posted_to_arena = TRUE,
                                      !.posted_to_discord = TRUE]]

\* update({posted_to_*: true}).eq("id", id); the result is not looked at
UpdatePostedFlag(table, id, column, err) ==
  IF err \/ id \notin DOMAIN table THEN table
  ELSE [table EXCEPT ![id] = [@ EXCEPT ![column] = TRUE]]

\* lines 319-324: the update of posted_to_arena returns
ArenaFlagUpdated(r, err) ==
  /\ r \in 1..Len(runs) /\ runs[r].pc = "arenaFlag"
  /\ contract_transactions' =
       UpdatePostedFlag(contract_transactions, runs[r].transactionId, "posted_to_arena", err)
  /\ SetRun(r, DiscordPart([runs[r] EXCEPT !.arenaFlagErr = err]))
  /\ UNCHANGED <<now, cacheVars, creators, pollerVars, otherVars>>

\* postToDiscordWithRetry, discord-socials.ts:46-82: one attempt returns;
\* on the last success or failure lines 352-363 run
postToDiscordChannels(r, success) ==
  /\ r \in 1..Len(runs) /\ runs[r].pc = "discordPost"
  /\ LET t == runs[r].tx
         rec == [runs[r] EXCEPT !.discordCalls = @ + 1]
         last == success \/ rec.attempt >= DiscordMaxRetries
     IN /\ discordPostCache' =
             IF last
             THEN CacheAfterPost(discordPostCache, DiscordKey(t), rec.postType, now, success)
             ELSE discordPostCache
        /\ SetRun(r, IF success
                     THEN [rec EXCEPT !.discordPosted = TRUE,
                                      !.pc = IF rec.transactionId # NoId
                                             THEN "discordFlag" ELSE "done"]
                     ELSE IF ~last
                          THEN [rec EXCEPT !.attempt = @ + 1]
                          ELSE [rec EXCEPT !.pc = "done"])
  /\ UNCHANGED <<now, arenaPostCache, dbVars, pollerVars, otherVars>>

\* lines 354-359: the update of posted_to_discord returns
DiscordFlagUpdated(r, err) ==
  /\ r \in 1..Len(runs) /\ runs[r].pc = "discordFlag"
  /\ contract_transactions' =
       UpdatePostedFlag(contract_transactions, runs[r].transactionId, "posted_to_discord", err)
  /\ SetRun(r, [runs[r] EXCEPT !.pc = "done", !.discordFlagErr = err])
  /\ UNCHANGED <<now, cacheVars, creators, pollerVars, otherVars>>

----------------------------------------------------------------------------
(* Poller: blockchain.ts:297-315 and 376-392 *)

\* monitorContract has built contractTx for a creation transaction:
\* notifyCallbacks(contractTx), then fetchCreatorProfile(tx.from).then(...)
CreationFound(h) ==
  /\ Len(runs) + Len(timers) + Cardinality(profileFetches) + 2 <= MaxRuns
  /\ \A i \in 1..Len(detections) : detections[i].hash # h
  /\ LET d == Len(detections) + 1
     IN /\ detections' = Append(detections,
                                [hash |-> h,
                                 newWallet |-> ChainTx(h).from \notin DOMAIN creators,
                                 kind |-> "TOKEN_CREATION",
                                 tick |-> 0, afterStop |-> FALSE])
        /\ timers' = Append(timers, d)
        /\ profileFetches' = profileFetches \cup {d}
  /\ UNCHANGED <<now, cacheVars, dbVars, runs, delivered, otherVars>>

\* fetchCreatorProfile settles; it never rejects: notifyCallbacks again
CreatorProfileFetched(d) ==
  /\ d \in profileFetches
  /\ profileFetches' = profileFetches \ {d}
  /\ timers' = Append(timers, d)
  /\ UNCHANGED <<now, cacheVars, dbVars, runs, detections, delivered, otherVars>>

\* the subscribers whose function may throw
ThrowingCallbacks == {"b"}

\* monitoringCallbacks.forEach with the try/catch of lines 301-305 around
\* every call: the positions called, and whether the statement after the
\* loop is reached
ForEachCallback_NoCatch(list, throwers) ==
  LET threw == {i \in 1..Len(list) : list[i] \in throwers}
  IN [called |-> {i \in 1..Len(list) : \A j \in threw : i <= j},
      completed |-> threw = {}]
ForEachCallback(list, throwers) ==
  [called |-> 1..Len(list), completed |-> TRUE]

\* the setTimeout callback of notifyCallbacks runs: every subscriber of the
\* moment is called, those of `throwers` throw; isTokenCreation holds for
\* everything monitorContract delivers, so processTokenCreation is called
notifyCallbacks(throwers) ==
  /\ timers # <<>>
  /\ LET d == Head(timers)
         t == ChainTx(detections[d].hash) @@ [hasTimestamp |-> TRUE]
         loop == ForEachCallback(monitoringCallbacks, throwers)
     IN /\ delivered' = delivered \cup
                           {<<monitoringCallbacks[i], d, monitoringCallbacks[i] \in throwers>>
                              : i \in loop.called}
        /\ runs' = IF loop.completed THEN Append(runs, NewRun(t, d)) ELSE runs
  /\ timers' = Tail(timers)
  /\ UNCHANGED <<now, cacheVars, dbVars, profileFetches, detections, otherVars>>

----------------------------------------------------------------------------
(* Poller lifecycle: blockchain.ts:160-163 and 318-485 *)

ARENA_CONTRACT_ADDRESS == "0x8315f1eb449Dd4B779495C3A0b05e5d194446c6e"

createTokenSelector == Hex(<<"0", "b", "8", "c", "6", "f", "e", "c">>)
buySelector == Hex(<<"a", "6", "f", "2", "a", "e", "3", "a">>)

\* tx.to of a deployment
NoAddress == "null"

\* block.transactions of the block of a number: a creation sent to the
\* checksummed contract address, a buy sent to the lower-cased one, a
\* creation call to another contract and a deployment (to is null)
Block(n) ==
  IF n = FirstHead
  THEN << [hash |-> "0xh1", from |-> "0xAB", to |-> ARENA_CONTRACT_ADDRESS,
           methodId |-> createTokenSelector, value |-> <<0, 0>>],
          [hash |-> "0xb1", from |-> "0xCD",
           to |-> "0x8315f1eb449dd4b779495c3a0b05e5d194446c6e",
           methodId |-> buySelector, value |-> <<1, 0>>],
          [hash |-> "0xo1", from |-> "0xCD", to |-> "0xother",
           methodId |-> createTokenSelector, value |-> <<0, 0>>],
          [hash |-> "0xn1", from |-> "0xCD", to |-> NoAddress,
           methodId |-> Hex(<<>>), value |-> <<0, 0>>] >>
  ELSE << [hash |-> "0xh2", from |-> "0xAB",
           to |-> "0x8315f1eb449dd4b779495c3a0b05e5d194446c6e",
           methodId |-> createTokenSelector, value |-> <<0, 0>>] >>

\* line 347: tx.to?.toLowerCase() === ARENA_CONTRACT_ADDRESS.toLowerCase()
AddressedToContract(tx) ==
  tx.to # NoAddress /\ ToLowerCase(tx.to) = ToLowerCase(ARENA_CONTRACT_ADDRESS)

\* lines 348-352: the transactions of a block that get past the filter
CreationsOnly(txs) ==
  LET IsCreation(tx) ==
        /\ AddressedToContract(tx)
        /\ determineTransactionType(tx.methodId, tx.value).type = "TOKEN_CREATION"
  IN SelectSeq(txs, IsCreation)

TickIds == 1..MaxTicks
DetectionIds == 1..MaxDetections

\* a call of monitorContract that has reached client.getBlockNumber(); first
\* marks the call made by startContractMonitoring (line 433)
NewTick == [pc |-> "head", latestBlock |-> 0, blockNum |-> 0,
            stopped |-> FALSE, scheduled |-> FALSE, first |-> FALSE]

FinishedTick(t) == [t EXCEPT !.pc = "done", !.latestBlock = 0, !.blockNum = 0]

\* clearTimeout(monitoringTimeout) when the handle is truthy
ClearTimeout == pendingTimeouts \ {monitoringTimeout}

\* lines 418-434, from a state in which isMonitoring is false
StartMonitoring ==
  /\ isMonitoring' = TRUE
  /\ pendingTimeouts' = ClearTimeout
  /\ ticks' = Append(ticks, [NewTick EXCEPT !.first = TRUE])
  /\ UNCHANGED <<lastProcessedBlock, monitoringTimeout>>

\* startContractMonitoring()
startContractMonitoring ==
  /\ isMonitoring \/ Len(ticks) < MaxTicks
  /\ IF isMonitoring
     THEN UNCHANGED <<isMonitoring, pendingTimeouts, ticks, lastProcessedBlock,
                      monitoringTimeout>>
     ELSE StartMonitoring
  /\ UNCHANGED <<monitoringCallbacks, chainHead, scanned, unsubscribe,
                 pipelineVars, pureVars, resolverVars>>

\* lines 437-449; a tick that is awaiting the chain is marked
StopMonitoring_KeepsCallbacks ==
  /\ isMonitoring' = FALSE
  /\ pendingTimeouts' = ClearTimeout
  /\ monitoringTimeout' = 0
  /\ monitoringCallbacks' = monitoringCallbacks
  /\ lastProcessedBlock' = 0
  /\ ticks' = [k \in 1..Len(ticks) |->
                 IF ticks[k].pc \in {"head", "block"}
                 THEN [ticks[k] EXCEPT !.stopped = TRUE] ELSE ticks[k]]
StopMonitoring ==
  /\ isMonitoring' = FALSE
  /\ pendingTimeouts' = ClearTimeout
  /\ monitoringTimeout' = 0
  /\ monitoringCallbacks' = <<>>
  /\ lastProcessedBlock' = 0
  /\ ticks' = [k \in 1..Len(ticks) |->
                 IF ticks[k].pc \in {"head", "block"}
                 THEN [ticks[k] EXCEPT !.stopped = TRUE] ELSE ticks[k]]

\* stopContractMonitoring()
stopContractMonitoring ==
  /\ StopMonitoring
  /\ UNCHANGED <<chainHead, scanned, unsubscribe, pipelineVars, pureVars, resolverVars>>

\* subscribeToContractTransactions(callback), lines 452-458
subscribeToContractTransactions(callback) ==
  /\ Len(monitoringCallbacks) < MaxSubscribers
  /\ isMonitoring \/ Len(ticks) < MaxTicks
  /\ monitoringCallbacks' = Append(monitoringCallbacks, callback)
  /\ IF isMonitoring
     THEN UNCHANGED <<isMonitoring, pendingTimeouts, ticks, lastProcessedBlock,
                      monitoringTimeout>>
     ELSE StartMonitoring
  /\ unsubscribe' = [unsubscribe EXCEPT ![callback] = "returned"]
  /\ UNCHANGED <<chainHead, scanned, pipelineVars, pureVars, resolverVars>>

\* Array.prototype.indexOf, 0 for -1
IndexOf(list, x) ==
  IF \E i \in 1..Len(list) : list[i] = x
  THEN CHOOSE i \in 1..Len(list) : list[i] = x /\ \A j \in 1..(i - 1) : list[j] # x
  ELSE 0

\* list.splice(index, 1)
Splice_RemovesAll(list, index) == SelectSeq(list, LAMBDA x : x # list[index])
Splice(list, index) == SubSeq(list, 1, index - 1) \o SubSeq(list, index + 1, Len(list))

\* the function subscribe returned for a callback is called, lines 461-471
Unsubscribe(callback) ==
  /\ unsubscribe[callback] # "none"
  /\ unsubscribe' = [unsubscribe EXCEPT ![callback] = "called"]
  /\ LET index == IndexOf(monitoringCallbacks, callback)
         rest == IF index > 0 THEN Splice(monitoringCallbacks, index)
                 ELSE monitoringCallbacks
     IN IF rest = <<>>
        THEN StopMonitoring
        ELSE /\ monitoringCallbacks' = rest
             /\ UNCHANGED <<isMonitoring, pendingTimeouts, ticks, lastProcessedBlock,
                            monitoringTimeout>>
  /\ UNCHANGED <<chainHead, scanned, pipelineVars, pureVars, resolverVars>>

\* the chain grows
NewBlock ==
  /\ chainHead < MaxBlock
  /\ chainHead' = chainHead + 1
  /\ UNCHANGED <<isMonitoring, lastProcessedBlock, monitoringCallbacks, monitoringTimeout,
                 pendingTimeouts, ticks, scanned, unsubscribe,
                 pipelineVars, pureVars, resolverVars>>

\* a timer set by monitorContract fires: monitorContract(), line 319
TimeoutFired(h) ==
  /\ h \in pendingTimeouts
  /\ pendingTimeouts' = pendingTimeouts \ {h}
  /\ IF isMonitoring
     THEN /\ Len(ticks) < MaxTicks
          /\ ticks' = Append(ticks, NewTick)
     ELSE UNCHANGED ticks
  /\ UNCHANGED <<isMonitoring, lastProcessedBlock, monitoringCallbacks, monitoringTimeout,
                 chainHead, scanned, unsubscribe, pipelineVars, pureVars, resolverVars>>

\* monitoringTimeout = setTimeout(monitorContract, 3000) by tick k, which ends
SetTimeoutAndReturn(k) ==
  /\ monitoringTimeout' = k
  /\ pendingTimeouts' = pendingTimeouts \cup {k}
  /\ ticks' = [ticks EXCEPT ![k] = [FinishedTick(@) EXCEPT !.scheduled = TRUE]]

\* lines 411-414
ScheduleNextCheck_NotAfterReturn(k) ==
  /\ ticks' = [ticks EXCEPT ![k] = FinishedTick(@)]
  /\ UNCHANGED <<monitoringTimeout, pendingTimeouts>>
ScheduleNextCheck(k) ==
  IF isMonitoring
  THEN SetTimeoutAndReturn(k)
  ELSE /\ ticks' = [ticks EXCEPT ![k] = FinishedTick(@)]
       /\ UNCHANGED <<monitoringTimeout, pendingTimeouts>>

\* client.getBlockNumber() settles for tick k, lines 322-339
BlockNumberReturned(k, err) ==
  /\ k \in 1..Len(ticks) /\ ticks[k].pc = "head"
  /\ IF err
     THEN ScheduleNextCheck(k) /\ UNCHANGED lastProcessedBlock
     ELSE IF lastProcessedBlock = 0
          THEN /\ lastProcessedBlock' = chainHead - 1
               /\ SetTimeoutAndReturn(k)
          ELSE IF chainHead > lastProcessedBlock
               THEN /\ ticks' = [ticks EXCEPT ![k].pc = "block",
                                              ![k].latestBlock = chainHead,
                                              ![k].blockNum = lastProcessedBlock + 1]
                    /\ UNCHANGED <<lastProcessedBlock, monitoringTimeout, pendingTimeouts>>
               ELSE ScheduleNextCheck(k) /\ UNCHANGED lastProcessedBlock
  /\ UNCHANGED <<isMonitoring, monitoringCallbacks, chainHead, scanned, unsubscribe,
                 pipelineVars, pureVars, resolverVars>>

\* the loop has run past latestBlock: lines 405-414
AfterLastBlock_ReadsHeadAgain(k) ==
  /\ lastProcessedBlock' = chainHead
  /\ ScheduleNextCheck(k)
AfterLastBlock(k) ==
  /\ lastProcessedBlock' = ticks[k].latestBlock
  /\ ScheduleNextCheck(k)

\* client.getBlock() settles for tick k, lines 341-403: on an error the
\* catch goes straight to the next block; otherwise every creation sent to
\* the contract is notified and its creator's profile fetched, and the loop
\* waits before the next block
BlockReturned(k, err) ==
  /\ k \in 1..Len(ticks) /\ ticks[k].pc = "block"
  /\ LET t == ticks[k]
         found == IF err THEN <<>> ELSE CreationsOnly(Block(t.blockNum))
         ids == {Len(detections) + i : i \in 1..Len(found)}
     IN /\ Len(detections) + Len(found) <= MaxDetections
        /\ detections' = detections \o
             [i \in 1..Len(found) |->
                [hash |-> found[i].hash,
                 newWallet |-> found[i].from \notin DOMAIN creators,
                 kind |-> determineTransactionType(found[i].methodId, found[i].value).type,
                 tick |-> k, afterStop |-> t.stopped]]
        /\ timers' = timers \o [i \in 1..Len(found) |-> Len(detections) + i]
        /\ profileFetches' = profileFetches \cup ids
        /\ scanned' = IF err THEN scanned
                      ELSE scanned \cup
                           { Block(t.blockNum)[i].hash :
                               i \in {j \in 1..Len(Block(t.blockNum)) :
                                        AddressedToContract(Block(t.blockNum)[j])} }
        /\ IF t.blockNum < t.latestBlock
           THEN /\ ticks' = [ticks EXCEPT ![k].pc = IF err THEN "block" ELSE "delay",
                                          ![k].blockNum = IF err THEN @ + 1 ELSE @]
                /\ UNCHANGED <<lastProcessedBlock, monitoringTimeout, pendingTimeouts>>
           ELSE AfterLastBlock(k)
  /\ UNCHANGED <<isMonitoring, monitoringCallbacks, chainHead, unsubscribe,
                 now, cacheVars, dbVars, runs, delivered, pureVars, resolverVars>>

\* the 100 ms pause between two blocks is over, lines 397-399 and 339-341
DelayElapsed(k) ==
  /\ k \in 1..Len(ticks) /\ ticks[k].pc = "delay"
  /\ ticks' = [ticks EXCEPT ![k].pc = "block", ![k].blockNum = @ + 1]
  /\ UNCHANGED <<isMonitoring, lastProcessedBlock, monitoringCallbacks, monitoringTimeout,
                 pendingTimeouts, chainHead, scanned, unsubscribe,
                 pipelineVars, pureVars, resolverVars>>

\* BigInt.prototype.toString of a non-negative value: its decimal digits
Digit(d) == <<"0", "1", "2", "3", "4", "5", "6", "7", "8", "9">>[d + 1]

RECURSIVE BigIntToString(_)
BigIntToString(n) ==
  IF n < 10 THEN <<Digit(n)>> ELSE Append(BigIntToString(n \div 10), Digit(n % 10))

\* getMonitoringStatus(), lines 475-485
getMonitoringStatus ==
  [isMonitoring |-> isMonitoring,
   lastProcessedBlock |-> BigIntToString(lastProcessedBlock),
   subscriberCount |-> Len(monitoringCallbacks)]

NextMonitor ==
  \/ startContractMonitoring
  \/ stopContractMonitoring
  \/ \E c \in Callbacks : subscribeToContractTransactions(c)
  \/ \E c \in Callbacks : Unsubscribe(c)
  \/ NewBlock
  \/ \E h \in TickIds : TimeoutFired(h)
  \/ \E k \in TickIds, err \in BOOLEAN : BlockNumberReturned(k, err)
  \/ \E k \in TickIds, err \in BOOLEAN : BlockReturned(k, err)
  \/ \E k \in TickIds : DelayElapsed(k)
  \/ \E d \in DetectionIds : CreatorProfileFetched(d)
  \/ \E throwers \in SUBSET ThrowingCallbacks : notifyCallbacks(throwers)

\* the modules at load, the store without a row for the wallet
InitMonitor == Init /\ creators = EmptyMap

SpecMonitor == InitMonitor /\ [][NextMonitor]_vars

\* the poller once started and never stopped: one call of monitorContract
\* after the other.  The call a timer starts is written in the place of the
\* call that set the timer, so that the ticks of a session are not counted.
NextTick(h) ==
  /\ h \in pendingTimeouts
  /\ isMonitoring
  /\ pendingTimeouts' = pendingTimeouts \ {h}
  /\ ticks' = [ticks EXCEPT ![h] = NewTick]
  /\ UNCHANGED <<isMonitoring, lastProcessedBlock, monitoringCallbacks, monitoringTimeout,
                 chainHead, scanned, unsubscribe, pipelineVars, pureVars, resolverVars>>

NextPolling ==
  \/ startContractMonitoring
  \/ \E c \in Callbacks : subscribeToContractTransactions(c)
  \/ NewBlock
  \/ \E h \in TickIds : NextTick(h)
  \/ \E k \in TickIds, err \in BOOLEAN : BlockNumberReturned(k, err)
  \/ \E k \in TickIds, err \in BOOLEAN : BlockReturned(k, err)
  \/ \E k \in TickIds : DelayElapsed(k)
  \/ \E d \in DetectionIds : CreatorProfileFetched(d)
  \/ \E throwers \in SUBSET ThrowingCallbacks : notifyCallbacks(throwers)

\* timers fire, chain requests settle, and a read of the chain head that is
\* tried again and again succeeds at some time
FairPolling ==
  /\ WF_vars(\E h \in TickIds : NextTick(h))
  /\ SF_vars(\E k \in TickIds : BlockNumberReturned(k, FALSE))
  /\ WF_vars(\E k \in TickIds, err \in BOOLEAN : BlockReturned(k, err))
  /\ WF_vars(\E k \in TickIds : DelayElapsed(k))

SpecPolling == InitMonitor /\ [][NextPolling]_vars /\ FairPolling

\* the chain client answers with any block number: the head a node reports
\* may be 0 or 1 on a young chain and may be lower than an earlier answer
HeadReported(v) ==
  /\ v \in 0..MaxBlock /\ v # chainHead
  /\ chainHead' = v
  /\ UNCHANGED <<isMonitoring, lastProcessedBlock, monitoringCallbacks, monitoringTimeout,
                 pendingTimeouts, ticks, scanned, unsubscribe,
                 pipelineVars, pureVars, resolverVars>>

\* the poller started and never stopped, with no subscriber, over every
\* sequence of heads
NextHeads ==
  \/ startContractMonitoring
  \/ \E v \in 0..MaxBlock : HeadReported(v)
  \/ \E h \in TickIds : NextTick(h)
  \/ \E k \in TickIds, err \in BOOLEAN : BlockNumberReturned(k, err)
  \/ \E k \in TickIds, err \in BOOLEAN : BlockReturned(k, err)
  \/ \E k \in TickIds : DelayElapsed(k)
  \/ \E d \in DetectionIds : CreatorProfileFetched(d)
  \/ \E throwers \in SUBSET ThrowingCallbacks : notifyCallbacks(throwers)

SpecHeads == InitMonitor /\ [][NextHeads]_vars

----------------------------------------------------------------------------
(* Profile resolver: arena-socials.ts:31-33 and 82-458 *)

\* JSON values of a badge's badgeType: [t |-> "number", n |-> 19],
\* [t |-> "string", s |-> <<"1", "9">>], or [t |-> "undefined"] when absent

HexDigits == <<"0", "1", "2", "3", "4", "5", "6", "7", "8", "9",
               "a", "b", "c", "d", "e", "f">>

IsDigitOf(c, base) == \E i \in 1..base : HexDigits[i] = LowerChar(c)

DigitValue(c) == (CHOOSE i \in 1..Len(HexDigits) : HexDigits[i] = LowerChar(c)) - 1

RECURSIVE ParseDigits(_, _)
ParseDigits(s, base) ==
  IF s = <<>> THEN 0
  ELSE ParseDigits(SubSeq(s, 1, Len(s) - 1), base) * base + DigitValue(s[Len(s)])

AllDigits(s, base) == \A i \in 1..Len(s) : IsDigitOf(s[i], base)

RECURSIVE TrimStart(_)
TrimStart(s) == IF s # <<>> /\ s[1] = " " THEN TrimStart(Tail(s)) ELSE s

RECURSIVE TrimEnd(_)
TrimEnd(s) ==
  IF s # <<>> /\ s[Len(s)] = " " THEN TrimEnd(SubSeq(s, 1, Len(s) - 1)) ELSE s

NaN == [nan |-> TRUE, num |-> 0, den |-> 1]

RECURSIVE PowerOfTen(_)
PowerOfTen(n) == IF n = 0 THEN 1 ELSE 10 * PowerOfTen(n - 1)

\* Number(string) for strings without sign and exponent: white space is
\* trimmed, "" is 0, "0x..." is a hex integer, digits with an optional
\* fraction are a decimal; anything else is NaN.  The value is num / den.
StringToNumber(s) ==
  LET t == TrimEnd(TrimStart(s))
      dot == IF \E i \in 1..Len(t) : t[i] = "."
             THEN CHOOSE i \in 1..Len(t) : t[i] = "." /\ \A j \in 1..(i - 1) : t[j] # "."
             ELSE 0
      int == IF dot = 0 THEN t ELSE SubSeq(t, 1, dot - 1)
      frac == IF dot = 0 THEN <<>> ELSE SubSeq(t, dot + 1, Len(t))
  IN IF t = <<>> THEN [nan |-> FALSE, num |-> 0, den |-> 1]
     ELSE IF Len(t) > 2 /\ t[1] = "0" /\ LowerChar(t[2]) = "x"
          THEN IF AllDigits(SubSeq(t, 3, Len(t)), 16)
               THEN [nan |-> FALSE, num |-> ParseDigits(SubSeq(t, 3, Len(t)), 16), den |-> 1]
               ELSE NaN
          ELSE IF AllDigits(int, 10) /\ AllDigits(frac, 10) /\ int \o frac # <<>>
               THEN [nan |-> FALSE, num |-> ParseDigits(int \o frac, 10),
                     den |-> PowerOfTen(Len(frac))]
               ELSE NaN

\* Number(badge.badgeType)
NumberOf(v) ==
  CASE v.t = "number" -> [nan |-> FALSE, num |-> v.n, den |-> 1]
    [] v.t = "string" -> StringToNumber(v.s)
    [] OTHER -> NaN

\* String(badge.badgeType)
StringOf(v) ==
  CASE v.t = "number" -> BigIntToString(v.n)
    [] v.t = "string" -> v.s
    [] OTHER -> <<"u", "n", "d", "e", "f", "i", "n", "e", "d">>

\* lines 299-305: the test of the two find calls on one badge
IsChampionBadge_StrictNumberOnly(bt) == bt.t = "number" /\ bt.n = 19
IsChampionBadge(bt) ==
  \/ bt.t = "number" /\ bt.n = 19
  \/ bt.t = "string" /\ bt.s = <<"1", "9">>
  \/ ~NumberOf(bt).nan /\ NumberOf(bt).num = 19 * NumberOf(bt).den
  \/ StringOf(bt) = <<"1", "9">>

\* line 311: !!(championBadge || championBadgeLoose)
ChampionBadgeFound(badges) == \E i \in 1..Len(badges) : IsChampionBadge(badges[i])

PROFILE_CACHE_DURATION == 300000

NoHandle == "null"

\* handle = userData.twitter_handle || userData.twitter_handle_lc || userData.handle,
\* for a row that has the given fields, each holding "alice"
HandleOf(fields) ==
  IF "twitter_handle" \in fields \/ "handle" \in fields THEN "alice" ELSE NoHandle

\* normalizeArenaTradeArrayResponse, lines 408-458
normalizeArenaTradeArrayResponse(fields) ==
  IF "twitter_handle" \in fields
  THEN [username |-> "alice", displayName |-> "alice", isArenaChampion |-> FALSE]
  ELSE IF "twitter_username" \in fields
       THEN [displayName |-> "alice", isArenaChampion |-> FALSE]
       ELSE Null

\* profile.isArenaChampion = false, if (profile)
WithChampionFalse(profile) ==
  IF IsNull(profile) THEN profile
  ELSE [f \in DOMAIN profile \cup {"isArenaChampion"} |->
          IF f = "isArenaChampion" THEN FALSE ELSE profile[f]]

\* profile.isArenaChampion = value
WithChampion(profile, value) ==
  [f \in DOMAIN profile \cup {"isArenaChampion"} |->
     IF f = "isArenaChampion" THEN value ELSE profile[f]]

\* line 86: cached && Date.now() - cached.timestamp < CACHE_DURATION
CacheHit_NullIsMiss(cache, key, t) ==
  /\ key \in DOMAIN cache
  /\ ~IsNull(cache[key].profile)
  /\ t - cache[key].timestamp < PROFILE_CACHE_DURATION
CacheHit(cache, key, t) ==
  /\ key \in DOMAIN cache
  /\ t - cache[key].timestamp < PROFILE_CACHE_DURATION

ResolveIds == 1..MaxResolves

\* fetchArenaUserProfile(walletAddress) up to its first await, lines 82-112;
\* entryAt and entryProfile record what the cache held for the key
ResolveLookup(walletAddress) ==
  /\ Len(resolves) < MaxResolves
  /\ LET key == ToLowerCase(walletAddress)
         hit == CacheHit(userProfileCache, key, now)
         has == key \in DOMAIN userProfileCache
     IN resolves' = Append(resolves,
          [address |-> walletAddress,
           pc |-> IF hit THEN "done" ELSE "step1",
           contacted |-> ~hit,
           handle |-> NoHandle, userId |-> FALSE, profile |-> Null,
           result |-> IF hit THEN userProfileCache[key].profile ELSE Null,
           lookupTime |-> now,
           entryAt |-> IF has THEN userProfileCache[key].timestamp ELSE -1,
           entryProfile |-> IF has THEN userProfileCache[key].profile ELSE Null,
           stats |-> [kind |-> "none"]])
  /\ UNCHANGED <<userProfileCache, pipelineVars, pureVars, monitorVars>>

\* lines 365-393: no user id, the result is cached and returned
ReturnProfile(c, profile, extra) ==
  /\ userProfileCache' = MapSet(userProfileCache, ToLowerCase(resolves[c].address),
                                [profile |-> profile, timestamp |-> now])
  /\ resolves' = [resolves EXCEPT ![c] = extra @@ [pc |-> "done", profile |-> profile,
                                                  result |-> profile] @@ @]

\* line 137: if (handle)
IfHandle_Always(handle) == TRUE
IfHandle(handle) == handle # NoHandle

\* step 1 settles, lines 112-137: ok tells whether a row came back; an error
\* response, an exception and exhausted retries all leave handle and
\* profile as they were (lines 129-134)
ArenaTradeReturned(c, ok, fields) ==
  /\ c \in 1..Len(resolves) /\ resolves[c].pc = "step1"
  /\ LET handle == IF ok THEN HandleOf(fields) ELSE NoHandle
         profile == IF ok THEN normalizeArenaTradeArrayResponse(fields) ELSE Null
     IN IF IfHandle(handle)
        THEN /\ resolves' = [resolves EXCEPT ![c].pc = "step2", ![c].handle = handle,
                                             ![c].profile = profile]
             /\ UNCHANGED userProfileCache
        ELSE ReturnProfile(c, WithChampionFalse(profile), [handle |-> handle])
  /\ UNCHANGED <<now, cacheVars, dbVars, runs, pollerVars, pureVars, monitorVars>>

\* step 2 settles, lines 152-217: hasId tells whether data.user.id came back
StarsArenaUserReturned(c, hasId) ==
  /\ c \in 1..Len(resolves) /\ resolves[c].pc = "step2"
  /\ LET r == resolves[c]
         profile == IF hasId /\ IsNull(r.profile)
                    THEN [username |-> r.handle, displayName |-> r.handle]
                    ELSE r.profile
     IN IF hasId
        THEN /\ resolves' = [resolves EXCEPT ![c].pc = "step3", ![c].userId = TRUE,
                                             ![c].profile = profile]
             /\ UNCHANGED userProfileCache
        ELSE ReturnProfile(c, WithChampionFalse(profile), [userId |-> FALSE])
  /\ UNCHANGED <<now, cacheVars, dbVars, runs, pollerVars, pureVars, monitorVars>>

\* step 3 settles, lines 232-393.  stats.kind is "ok" for a 2xx response
\* that is read without an exception, "nonok" for another status and "throw"
\* for an exception or a timeout; a response holds a badge array or not
StarsArenaStatsReturned(c, stats) ==
  /\ c \in 1..Len(resolves) /\ resolves[c].pc = "step3"
  /\ LET r == resolves[c]
         champion == stats.kind = "ok" /\ stats.isArray /\ ChampionBadgeFound(stats.badges)
     IN ReturnProfile(c, WithChampion(r.profile, champion), [stats |-> stats])
  /\ UNCHANGED <<now, cacheVars, dbVars, runs, pollerVars, pureVars, monitorVars>>

\* wallet addresses looked up; the first two share a cache key
ResolverAddresses == {"0xAB", "0xab", "0xCD"}

\* the fields a row of arena.trade may carry
UserInfoFields == SUBSET {"twitter_handle", "handle", "twitter_username"}

BadgeTypes ==
  { [t |-> "number", n |-> 19], [t |-> "number", n |-> 18],
    [t |-> "string", s |-> <<"1", "9">>], [t |-> "string", s |-> <<"1", "8">>],
    [t |-> "string", s |-> <<"1", "9", ".", "0">>],
    [t |-> "string", s |-> <<" ", "1", "9">>],
    [t |-> "string", s |-> <<"0", "x", "1", "3">>],
    [t |-> "undefined"] }

BadgeLists ==
  {<<>>} \cup { <<a>> : a \in BadgeTypes } \cup { <<a, b>> : a, b \in BadgeTypes }

StatsFailures == { [kind |-> "throw"], [kind |-> "nonok"] }

\* outcomes of step 3
StatsResults ==
  StatsFailures \cup { [kind |-> "ok", isArray |-> FALSE, badges |-> <<>>] }
    \cup { [kind |-> "ok", isArray |-> TRUE, badges |-> b] : b \in BadgeLists }

\* outcomes of step 3 that fix the profile's champion flag either way
FewStatsResults ==
  { [kind |-> "throw"],
    [kind |-> "ok", isArray |-> TRUE, badges |-> <<[t |-> "number", n |-> 19]>>] }

\* instants around the lifetime of an entry stored at 0 or at 1
ResolverTimes ==
  {0, 1, PROFILE_CACHE_DURATION - 1, PROFILE_CACHE_DURATION, PROFILE_CACHE_DURATION + 1}

\* Date.now() moves on
AdvanceClock(t) ==
  /\ t \in ResolverTimes /\ t > now
  /\ now' = t
  /\ UNCHANGED <<cacheVars, dbVars, runs, pollerVars, otherVars>>

\* the resolver with its clock
NextResolver ==
  \/ \E a \in ResolverAddresses : ResolveLookup(a)
  \/ \E c \in ResolveIds, ok \in BOOLEAN, fields \in UserInfoFields :
       ArenaTradeReturned(c, ok, fields)
  \/ \E c \in ResolveIds, hasId \in BOOLEAN : StarsArenaUserReturned(c, hasId)
  \/ \E c \in ResolveIds, stats \in FewStatsResults : StarsArenaStatsReturned(c, stats)
  \/ \E t \in ResolverTimes : AdvanceClock(t)

SpecResolver == InitMonitor /\ [][NextResolver]_vars

\* a lookup that starts when the earlier ones have returned
ResolveInSequence(walletAddress) ==
  /\ \A c \in 1..Len(resolves) : resolves[c].pc = "done"
  /\ ResolveLookup(walletAddress)

\* lookups one after the other, with every outcome of the stats lookup
NextChampion ==
  \/ \E a \in ResolverAddresses : ResolveInSequence(a)
  \/ \E c \in ResolveIds, ok \in BOOLEAN, fields \in UserInfoFields :
       ArenaTradeReturned(c, ok, fields)
  \/ \E c \in ResolveIds, hasId \in BOOLEAN : StarsArenaUserReturned(c, hasId)
  \/ \E c \in ResolveIds, stats \in StatsResults : StarsArenaStatsReturned(c, stats)

SpecChampion == InitMonitor /\ [][NextChampion]_vars

----------------------------------------------------------------------------
(* Environment *)

\* time passes
Tick ==
  /\ now < MaxNow * TickStep
  /\ now' = now + TickStep
  /\ UNCHANGED <<cacheVars, dbVars, runs, pollerVars, otherVars>>

\* the token list's addNewToken (the TokenList component): only a
\* token with a creator and a symbol is processed; the object it builds
\* has no timestamp and no block number
addNewToken(h) ==
  /\ ChainTx(h).hasMeta /\ ChainTx(h).symbol # ""
  /\ Invoke(h, FALSE)

\* calls of one after the other: the next starts when the earlier have returned
InvokeInSequence(h, ts) ==
  /\ \A r \in 1..Len(runs) : Done(r)
  /\ Invoke(h, ts)

\* the pipeline with every interleaving of the calls in flight
Next ==
  \/ \E h \in Hashes : addNewToken(h)
  \/ \E r \in RunIds, err \in BOOLEAN : TxStatusSelected(r, err)
  \/ \E r \in RunIds, err \in BOOLEAN : saveContractTransaction(r, err)
  \/ \E r \in RunIds, err \in BOOLEAN : addCreatorContractSelected(r, err)
  \/ \E r \in RunIds, err \in BOOLEAN : addCreatorContractInserted(r, err)
  \/ \E r \in RunIds, err \in BOOLEAN : addCreatorContractUpdated(r, err)
  \/ \E r \in RunIds, err \in BOOLEAN : getCreator(r, err)
  \/ \E r \in RunIds, p \in Profiles : fetchArenaUserProfile(r, p)
  \/ \E r \in RunIds, posted \in BOOLEAN : postToArenaTimeline(r, posted)
  \/ \E r \in RunIds, err \in BOOLEAN : ArenaFlagUpdated(r, err)
  \/ \E r \in RunIds, success \in BOOLEAN : postToDiscordChannels(r, success)
  \/ \E r \in RunIds, err \in BOOLEAN : DiscordFlagUpdated(r, err)
  \/ \E h \in Hashes : CreationFound(h)
  \/ \E d \in RunIds : CreatorProfileFetched(d)
  \/ \E throwers \in SUBSET ThrowingCallbacks : notifyCallbacks(throwers)

Spec == Init /\ [][Next]_vars

\* calls in sequence, with the clock of the cache lifetime
NextSeq ==
  \/ \E h \in Hashes, ts \in BOOLEAN : InvokeInSequence(h, ts)
  \/ \E r \in RunIds, err \in BOOLEAN : TxStatusSelected(r, err)
  \/ \E r \in RunIds, err \in BOOLEAN : saveContractTransaction(r, err)
  \/ \E r \in RunIds, err \in BOOLEAN : addCreatorContractSelected(r, err)
  \/ \E r \in RunIds, err \in BOOLEAN : addCreatorContractInserted(r, err)
  \/ \E r \in RunIds, err \in BOOLEAN : addCreatorContractUpdated(r, err)
  \/ \E r \in RunIds, err \in BOOLEAN : getCreator(r, err)
  \/ \E r \in RunIds, p \in Profiles : fetchArenaUserProfile(r, p)
  \/ \E r \in RunIds, posted \in BOOLEAN : postToArenaTimeline(r, posted)
  \/ \E r \in RunIds, err \in BOOLEAN : ArenaFlagUpdated(r, err)
  \/ \E r \in RunIds, success \in BOOLEAN : postToDiscordChannels(r, success)
  \/ \E r \in RunIds, err \in BOOLEAN : DiscordFlagUpdated(r, err)
  \/ Tick

SpecSeq == Init /\ [][NextSeq]_vars

\* the pipeline fed by the poller's deliveries, with components subscribed:
\* whatever monitorContract builds, with metadata or without, goes to the
\* subscribers and to processTokenCreation (blockchain.ts:297-315)
NextDelivery ==
  \/ \E c \in Callbacks : subscribeToContractTransactions(c)
  \/ \E h \in Hashes : CreationFound(h)
  \/ \E d \in RunIds : CreatorProfileFetched(d)
  \/ \E throwers \in SUBSET ThrowingCallbacks : notifyCallbacks(throwers)
  \/ \E r \in RunIds, err \in BOOLEAN : TxStatusSelected(r, err)
  \/ \E r \in RunIds, err \in BOOLEAN : saveContractTransaction(r, err)
  \/ \E r \in RunIds, err \in BOOLEAN : addCreatorContractSelected(r, err)
  \/ \E r \in RunIds, err \in BOOLEAN : addCreatorContractInserted(r, err)
  \/ \E r \in RunIds, err \in BOOLEAN : addCreatorContractUpdated(r, err)
  \/ \E r \in RunIds, err \in BOOLEAN : getCreator(r, err)
  \/ \E r \in RunIds, p \in Profiles : fetchArenaUserProfile(r, p)
  \/ \E r \in RunIds, posted \in BOOLEAN : postToArenaTimeline(r, posted)
  \/ \E r \in RunIds, err \in BOOLEAN : ArenaFlagUpdated(r, err)
  \/ \E r \in RunIds, success \in BOOLEAN : postToDiscordChannels(r, success)
  \/ \E r \in RunIds, err \in BOOLEAN : DiscordFlagUpdated(r, err)

SpecDelivery == InitMonitor /\ [][NextDelivery]_vars

----------------------------------------------------------------------------
(* Creator updates: addCreatorContract (database-simple.ts:89-172) called  *)
(* on its own, updateCreatorOnTokenCreation (creators.ts:22-55) and the    *)
(* SQL function add_creator_contract (create-creators-table.sql:27-78)     *)

\* the ticker of a creation transaction
TokenData(t) == [symbol |-> t.symbol, transaction_hash |-> t.hash]

\* the row of the wallet has room for one more contract
RoomForContract(wallet) ==
  wallet \in DOMAIN creators => creators[wallet].contracts_created < MaxContracts

\* a call of addCreatorContract(walletAddress, symbol, name, address, hash)
CallAddCreatorContract(h) ==
  /\ ChainTx(h).hasMeta /\ ChainTx(h).symbol # ""
  /\ Len(runs) < MaxRuns
  /\ RoomForContract(ChainTx(h).from)
  /\ runs' = Append(runs, [NewRun(ChainTx(h) @@ [hasTimestamp |-> FALSE], 0)
                             EXCEPT !.pc = "addCreatorSelect", !.both = TRUE])
  /\ UNCHANGED <<now, cacheVars, dbVars, pollerVars, otherVars>>

\* creators.ts:22: a call of updateCreatorOnTokenCreation(walletAddress, tokenData)
CallUpdateCreatorOnTokenCreation(h) ==
  /\ ChainTx(h).hasMeta /\ ChainTx(h).symbol # ""
  /\ IsNull(callArgs)
  /\ RoomForContract(ChainTx(h).from)
  /\ callArgs' = [walletAddress |-> ChainTx(h).from, tokenData |-> TokenData(ChainTx(h)),
                  pc |-> "select", existingCreator |-> Null]
  /\ UNCHANGED <<pipelineVars, tierVars, routeVars, monitorVars, resolverVars, callResult>>

\* creators.ts:25-29: the select returns; its error is not read
UpdateCreatorSelected(err) ==
  /\ ~IsNull(callArgs) /\ callArgs.pc = "select"
  /\ callArgs' =
       [callArgs EXCEPT !.pc = "write",
                        !.existingCreator =
                           IF ~err /\ callArgs.walletAddress \in DOMAIN creators
                           THEN creators[callArgs.walletAddress]
                           ELSE Null]
  /\ UNCHANGED <<pipelineVars, tierVars, routeVars, monitorVars, resolverVars, callResult>>

\* creators.ts:31-50: the update or the insert returns; its error is not
\* read, and an insert of a wallet that has a row by now is one
UpdateCreatorWritten(err) ==
  /\ ~IsNull(callArgs) /\ callArgs.pc = "write"
  /\ LET w == callArgs.walletAddress
         existingCreator == callArgs.existingCreator
     IN creators' =
          IF err THEN creators
          ELSE IF ~IsNull(existingCreator)
               THEN IF w \in DOMAIN creators
                    THEN [creators EXCEPT ![w] =
                            [@ EXCEPT !.contracts_created = existingCreator.contracts_created + 1,
                                      !.contract_tickers =
                                         Append(existingCreator.contract_tickers,
                                                callArgs.tokenData)]]
                    ELSE creators
               ELSE IF w \in DOMAIN creators THEN creators
                    ELSE MapSet(creators, w,
                                [id |-> w, contracts_created |-> 1,
                                 contract_tickers |-> <<callArgs.tokenData>>])
  /\ callArgs' = Null
  /\ UNCHANGED <<now, cacheVars, contract_transactions, runs, pollerVars,
                 tierVars, routeVars, monitorVars, resolverVars, callResult>>

\* create-creators-table.sql:27-78: add_creator_contract, one statement
add_creator_contract(h) ==
  /\ ChainTx(h).hasMeta /\ ChainTx(h).symbol # ""
  /\ RoomForContract(ChainTx(h).from)
  /\ LET creator_wallet == ChainTx(h).from
         new_ticker == TokenData(ChainTx(h))
     IN creators' =
          IF creator_wallet \notin DOMAIN creators
          THEN MapSet(creators, creator_wallet,
                      [id |-> creator_wallet, contracts_created |-> 1,
                       contract_tickers |-> <<new_ticker>>])
          ELSE [creators EXCEPT ![creator_wallet] =
                  [@ EXCEPT !.contracts_created = @ + 1,
                            !.contract_tickers = Append(@, new_ticker)]]
  /\ UNCHANGED <<now, cacheVars, contract_transactions, runs, pollerVars, otherVars>>

NextCreators ==
  \/ \E h \in Hashes : CallAddCreatorContract(h)
  \/ \E r \in RunIds, err \in BOOLEAN : addCreatorContractSelected(r, err)
  \/ \E r \in RunIds, err \in BOOLEAN : addCreatorContractInserted(r, err)
  \/ \E r \in RunIds, err \in BOOLEAN : addCreatorContractUpdated(r, err)
  \/ \E h \in Hashes : CallUpdateCreatorOnTokenCreation(h)
  \/ \E err \in BOOLEAN : UpdateCreatorSelected(err)
  \/ \E err \in BOOLEAN : UpdateCreatorWritten(err)
  \/ \E h \in Hashes : add_creator_contract(h)

SpecCreators == Init /\ [][NextCreators]_vars

----------------------------------------------------------------------------
(* The tier rule on its own: profiles around the thresholds *)

\* wei amounts around 1.5 * 10^18 and in the lower binades
TierKeyPrices ==
  { <<0, 0>>, <<0, 1>>, <<9007199, 254740993>>,
    <<1499900000, 0>>, <<1499999999, 999999743>>, <<1499999999, 999999744>>,
    <<1499999999, 999999871>>, <<1499999999, 999999872>>, <<1499999999, 999999999>>,
    <<1500000000, 0>>, <<1500000000, 1>>, <<2000000000, 0>> }

TierFollowerCounts == {0, 4999, 5000, 5001}

TierProfiles ==
  { [f \in fields |->
       CASE f = "username" -> "alice"
         [] f = "isArenaChampion" -> champion
         [] f = "followerCount" -> followers
         [] f = "keyPrice" -> keyPrice]
    : fields \in { {"username"} \cup opt
                   : opt \in SUBSET {"isArenaChampion", "followerCount", "keyPrice"} },
      champion \in BOOLEAN,
      followers \in TierFollowerCounts,
      keyPrice \in TierKeyPrices }

InitTier ==
  /\ InitPipeline
  /\ tierProfile \in TierProfiles
  /\ tierPostType = "none"
  /\ tierChannel = "none"
  /\ env \in SUBSET WebhookNames
  /\ webhookUrl = "none"
  /\ InitMonitorIdle
  /\ InitResolverIdle
  /\ InitNoCall

\* env.DISCORD_WEBHOOK_* of the branch of a tier (route.ts:195, 199, 203)
TierWebhook(tier) ==
  CASE tier = "champion" -> "DISCORD_WEBHOOK_CHAMPIONS"
    [] tier = "heavy-hitter" -> "DISCORD_WEBHOOK_HEAVY_HITTERS"
    [] OTHER -> "DISCORD_WEBHOOK_GENERAL"

\* webhookUrl after the if-chain of POST; an unset variable is undefined
RouteWebhook(tier, e) ==
  IF TierWebhook(tier) \in e THEN TierWebhook(tier) ELSE "undefined"

\* getDiscordWebhookUrl (route.ts:70-84); POST never calls it
getDiscordWebhookUrl(isChampion, isHeavyHitter, e) ==
  IF isChampion /\ "DISCORD_WEBHOOK_CHAMPIONS" \in e THEN "DISCORD_WEBHOOK_CHAMPIONS"
  ELSE IF isHeavyHitter /\ "DISCORD_WEBHOOK_HEAVY_HITTERS" \in e
       THEN "DISCORD_WEBHOOK_HEAVY_HITTERS"
       ELSE IF "DISCORD_WEBHOOK_GENERAL" \in e THEN "DISCORD_WEBHOOK_GENERAL"
            ELSE "null"

\* database-simple.ts:290-300
DeterminePostType ==
  /\ tierPostType = "none"
  /\ tierPostType' = PostType(tierProfile)
  /\ UNCHANGED <<pipelineVars, tierProfile, tierChannel, routeVars, monitorVars,
                 resolverVars, callVars>>

\* discord-post/route.ts:189-206, called with isChampion =
\* arenaProfile.isArenaChampion || false (database-simple.ts:347)
\* and lines 193-211: the webhook of the branch taken, with no second
\* choice: an unset one is undefined and the route answers 500
DiscordRoute ==
  /\ tierChannel = "none"
  /\ tierChannel' = RouteTier(IsArenaChampion(tierProfile), tierProfile)
  /\ webhookUrl' = RouteWebhook(tierChannel', env)
  /\ UNCHANGED <<pipelineVars, tierProfile, tierPostType, env, monitorVars,
                 resolverVars, callVars>>

NextTier == DeterminePostType \/ DiscordRoute

SpecTier == InitTier /\ [][NextTier]_vars

----------------------------------------------------------------------------
(* Decoding of creation call data: blockchain.ts:166-216.  Call data is    *)
(* the text "0x", eight hex digits of selector and 64 hex digits for each  *)
(* 32-byte word of the ABI encoding.                                       *)

\* the characters of the names and symbols, with their UTF-8 codes
CharCode(c) ==
  IF c = " " THEN 32
  ELSE IF \E d \in 0..9 : Digit(d) = c THEN 48 + (CHOOSE d \in 0..9 : Digit(d) = c)
  ELSE IF \E i \in 1..26 : UpperCaseLetters[i] = c
       THEN 64 + (CHOOSE i \in 1..26 : UpperCaseLetters[i] = c)
       ELSE 96 + (CHOOSE i \in 1..26 : LowerCaseLetters[i] = c)

\* bytesToString of one byte; "?" stands for every other character
CodeChar(n) ==
  IF n = 32 THEN " "
  ELSE IF n \in 48..57 THEN Digit(n - 48)
  ELSE IF n \in 65..90 THEN UpperCaseLetters[n - 64]
  ELSE IF n \in 97..122 THEN LowerCaseLetters[n - 96]
  ELSE "?"

RECURSIVE NumberToHex(_)
NumberToHex(n) ==
  IF n < 16 THEN <<HexDigits[n + 1]>>
  ELSE Append(NumberToHex(n \div 16), HexDigits[(n % 16) + 1])

Zeros(n) == [i \in 1..n |-> "0"]

\* the 32-byte word of an unsigned number
Uint(n) == Zeros(64 - Len(NumberToHex(n))) \o NumberToHex(n)

RECURSIVE StringToHex(_)
StringToHex(s) ==
  IF s = <<>> THEN <<>>
  ELSE LET h == NumberToHex(CharCode(s[1]))
       IN Zeros(2 - Len(h)) \o h \o StringToHex(Tail(s))

\* the words that hold `length` bytes
WordsOf(length) == (length + 31) \div 32

\* a string after the head: its length, then its bytes padded on the right
\* to whole words
EncodeString(s) ==
  Uint(Len(s)) \o StringToHex(s) \o Zeros(64 * WordsOf(Len(s)) - 2 * Len(s))

\* the 32-byte word of an address: its 20 bytes, padded on the left
EncodeAddress(a) == Zeros(24) \o toLowerCase(SubSeq(a, 3, Len(a)))

FormatASelector == Hex(<<"0", "b", "8", "c", "6", "f", "e", "c">>)
FormatBSelector == Hex(<<"3", "0", "f", "5", "1", "a", "4", "6">>)

FormatAParameters == <<"string", "string", "uint256", "uint256">>
FormatBParameters ==
  <<"uint16", "uint8", "uint128", "uint8", "address", "uint256", "string", "string", "uint256">>

\* ABI encoding of (name, symbol, totalSupply, taxPercentage)
EncodeFormatA(name, symbol, totalSupply, taxPercentage) ==
  Uint(128) \o Uint(128 + 32 + 32 * WordsOf(Len(name)))
    \o Uint(totalSupply) \o Uint(taxPercentage)
    \o EncodeString(name) \o EncodeString(symbol)

\* ABI encoding of the nine parameters of the new format
EncodeFormatB(p1, p2, p3, p4, creator, p6, name, symbol, totalSupply) ==
  Uint(p1) \o Uint(p2) \o Uint(p3) \o Uint(p4) \o EncodeAddress(creator) \o Uint(p6)
    \o Uint(288) \o Uint(288 + 32 + 32 * WordsOf(Len(name))) \o Uint(totalSupply)
    \o EncodeString(name) \o EncodeString(symbol)

\* String.prototype.slice(start)
slice(s, start) == SubSeq(s, start + 1, Len(s))

\* the hex digits of `length` bytes at byte `position`
ReadBytes_WholeWords(hex, position, length) ==
  SubSeq(hex, 2 * position + 1, 2 * position + 64 * WordsOf(length))
ReadBytes(hex, position, length) ==
  SubSeq(hex, 2 * position + 1, 2 * position + 2 * length)

\* a read past the end of the data throws
InBounds(hex, position, length) == 2 * (position + length) <= Len(hex)

decodeNumber(hex, position) == ParseDigits(ReadBytes(hex, position, 32), 16)

\* checksumAddress: the EIP-55 spelling.  That of the contract's address is
\* the spelling of blockchain.ts:7; an address without letters has one
\* spelling.
ArenaContractChars ==
  Hex(<<"8", "3", "1", "5", "f", "1", "e", "b", "4", "4", "9", "D",
        "d", "4", "B", "7", "7", "9", "4", "9", "5", "C", "3", "A",
        "0", "b", "0", "5", "e", "5", "d", "1", "9", "4", "4", "4",
        "6", "c", "6", "e">>)

checksumAddress(a) ==
  IF toLowerCase(a) = toLowerCase(ArenaContractChars) THEN ArenaContractChars
  ELSE toLowerCase(a)

decodeAddress(hex, position) ==
  checksumAddress(Hex(SubSeq(ReadBytes(hex, position, 32), 25, 64)))

\* the bytes of a string as text
RECURSIVE bytesToString(_)
bytesToString(hex) ==
  IF hex = <<>> THEN <<>>
  ELSE <<CodeChar(ParseDigits(SubSeq(hex, 1, 2), 16))>> \o bytesToString(slice(hex, 2))

\* a string: the head word is the offset of its length word, and its bytes
\* follow the length
StringInBounds(hex, position) ==
  /\ InBounds(hex, position, 32)
  /\ InBounds(hex, decodeNumber(hex, position), 32)
  /\ InBounds(hex, decodeNumber(hex, position) + 32,
              decodeNumber(hex, decodeNumber(hex, position)))

decodeString(hex, position) ==
  LET offset == decodeNumber(hex, position)
      length == decodeNumber(hex, offset)
  IN bytesToString(ReadBytes(hex, offset + 32, length))

ParameterInBounds(type, hex, position) ==
  IF type = "string" THEN StringInBounds(hex, position) ELSE InBounds(hex, position, 32)

decodeParameter(type, hex, position) ==
  CASE type = "string" -> decodeString(hex, position)
    [] type = "address" -> decodeAddress(hex, position)
    [] OTHER -> decodeNumber(hex, position)

\* decodeAbiParameters(params, data) of viem for parameters of one head word
\* each: the values in order, or an exception
decodeAbiParameters(params, data) ==
  LET hex == slice(data, 2)
  IN IF \A i \in 1..Len(params) : ParameterInBounds(params[i], hex, 32 * (i - 1))
     THEN [threw |-> FALSE,
           values |-> [i \in 1..Len(params) |-> decodeParameter(params[i], hex, 32 * (i - 1))]]
     ELSE [threw |-> TRUE, values |-> <<>>]

\* decodeTokenCreationData(methodId, input), lines 166-216
decodeTokenCreationData(methodId, input) ==
  IF methodId = FormatASelector
  THEN LET decoded == decodeAbiParameters(FormatAParameters, Hex(slice(input, 10)))
       IN IF decoded.threw THEN Null
          ELSE [name |-> decoded.values[1],
                symbol |-> decoded.values[2],
                totalSupply |-> BigIntToString(decoded.values[3])]
  ELSE IF methodId = FormatBSelector
       THEN LET decoded == decodeAbiParameters(FormatBParameters, Hex(slice(input, 10)))
            IN IF decoded.threw THEN Null
               ELSE [name |-> decoded.values[7],
                     symbol |-> decoded.values[8],
                     totalSupply |-> BigIntToString(decoded.values[9]),
                     creator |-> decoded.values[5]]
       ELSE Null

\* names: empty, those of blockchain.test.ts, and of 31, 32 and 33 bytes
\* around the length of one word
TokenNames ==
  { <<>>,
    <<"M", "y", " ", "T", "o", "k", "e", "n">>,
    <<"N", "e", "w", " ", "T", "o", "k", "e", "n">>,
    <<"A", " ", "t", "o", "k", "e", "n", " ", "n", "a", "m", "e",
      " ", "o", "f", " ", "t", "h", "i", "r", "t", "y", " ", "o",
      "n", "e", " ", "b", "y", "t", "e">>,
    <<"A", " ", "t", "o", "k", "e", "n", " ", "n", "a", "m", "e",
      " ", "o", "f", " ", "t", "h", "i", "r", "t", "y", " ", "t",
      "w", "o", " ", "b", "y", "t", "e", "s">>,
    <<"A", " ", "t", "o", "k", "e", "n", " ", "n", "a", "m", "e",
      " ", "o", "f", " ", "t", "h", "i", "r", "t", "y", " ", "t",
      "h", "r", "e", "e", " ", "b", "y", "t", "e">> }

TokenSymbols == { <<>>, <<"M", "Y", "T">>, <<"N", "T", "K">> }

TotalSupplies == { 0, 1000, 5000, 2147483647 }

\* creators: the zero address, the address of blockchain.test.ts, and the
\* contract's address in the spelling of blockchain.ts:7 and in lower case
CreatorAddresses ==
  { Hex(Zeros(40)), Hex([i \in 1..40 |-> "1"]),
    ArenaContractChars, toLowerCase(ArenaContractChars) }

\* selectors that are neither format: of another method, a format's selector
\* in upper case, and a text shorter than a selector
OtherSelectors ==
  { Hex(<<"d", "e", "a", "d", "b", "e", "e", "f">>),
    Hex(<<"a", "6", "f", "2", "a", "e", "3", "a">>),
    Hex(<<"0", "B", "8", "C", "6", "F", "E", "C">>),
    Hex(<<>>) }

\* the calls: what was encoded, and the call data made of it
FormatACalls ==
  { [format |-> "A", name |-> n, symbol |-> s, totalSupply |-> t, creator |-> <<>>,
     methodId |-> FormatASelector,
     input |-> FormatASelector \o EncodeFormatA(n, s, t, 10)]
    : n \in TokenNames, s \in TokenSymbols, t \in TotalSupplies }

FormatBCalls ==
  { [format |-> "B", name |-> n, symbol |-> s, totalSupply |-> t, creator |-> c,
     methodId |-> FormatBSelector,
     input |-> FormatBSelector \o EncodeFormatB(1, 2, 3, 4, c, 5, n, s, t)]
    : n \in TokenNames, s \in {<<"N", "T", "K">>}, t \in {0, 5000}, c \in CreatorAddresses }

OtherCalls ==
  { [format |-> "other", name |-> n, symbol |-> <<"M", "Y", "T">>, totalSupply |-> 1000,
     creator |-> <<>>, methodId |-> sel,
     input |-> sel \o EncodeFormatA(n, <<"M", "Y", "T">>, 1000, 10)]
    : n \in TokenNames, sel \in OtherSelectors }

\* call data of a format that lacks its last word, or everything after the
\* selector, is not valid call data
TruncatedCalls ==
  { [c EXCEPT !.format = "truncated",
              !.input = SubSeq(c.input, 1, IF whole THEN 10 ELSE Len(c.input) - 64)]
    : c \in { d \in FormatACalls \cup FormatBCalls : d.totalSupply = 5000 /\ d.name # <<>> },
      whole \in BOOLEAN }

\* the result of a call that has not returned
Pending == [pending |-> TRUE]

InitDecode ==
  /\ InitPipeline
  /\ creators = EmptyMap
  /\ InitTierIdle
  /\ InitMonitorIdle
  /\ InitResolverIdle
  /\ callArgs \in FormatACalls \cup FormatBCalls \cup OtherCalls \cup TruncatedCalls
  /\ callResult = Pending

CallDecodeTokenCreationData ==
  /\ callResult = Pending
  /\ callResult' = decodeTokenCreationData(callArgs.methodId, callArgs.input)
  /\ UNCHANGED <<pipelineVars, tierVars, routeVars, monitorVars, resolverVars, callArgs>>

NextDecode == CallDecodeTokenCreationData

SpecDecode == InitDecode /\ [][NextDecode]_vars

----------------------------------------------------------------------------
(* Calls of determineTransactionType (blockchain.ts:250-294), as           *)
(* monitorContract makes them at line 349 with tx.input.slice(0, 10) and   *)
(* tx.value.toString()                                                     *)

\* method ids: the keys of the table, one of them in upper case, texts with
\* "create" or "token" in either case, texts with part of such a word, the
\* bare prefix and the empty input
ClassifyMethodIds ==
  { e.key : e \in METHOD_SIGNATURES }
    \cup { Hex(<<"A", "6", "F", "2", "A", "E", "3", "A">>),
           Hex(<<"d", "e", "a", "d", "c", "r", "e", "a", "t", "e">>),
           Hex(<<"d", "e", "a", "d", "C", "R", "E", "A", "T", "E">>),
           Hex(<<"C", "r", "e", "a", "t", "e", "0", "1">>),
           Hex(<<"m", "y", "t", "o", "k", "e", "n", "1">>),
           Hex(<<"0", "0", "0", "T", "O", "K", "E", "N">>),
           Hex(<<"t", "o", "k", "e", "c", "r", "e", "a">>),
           Hex(<<"c", "r", "e", "a", "t", "t", "o", "k">>),
           Hex(<<"d", "e", "a", "d", "b", "e", "e", "f">>),
           Hex(<<"a", "b", "c", "d", "e", "f", "0", "1">>),
           Hex(<<"0", "b", "8", "c", "6", "f", "e">>),
           Hex(<<>>),
           <<>> }

\* wei amounts: nothing, one wei, one gwei, one AVAX
ClassifyValues == { <<0, 0>>, <<0, 1>>, <<1, 0>>, <<1000000000, 0>> }

InitClassify ==
  /\ InitPipeline
  /\ creators = EmptyMap
  /\ InitTierIdle
  /\ InitMonitorIdle
  /\ InitResolverIdle
  /\ callArgs \in [methodId : ClassifyMethodIds, value : ClassifyValues]
  /\ callResult = Null

CallDetermineTransactionType ==
  /\ IsNull(callResult)
  /\ callResult' = determineTransactionType(callArgs.methodId, callArgs.value)
  /\ UNCHANGED <<pipelineVars, tierVars, routeVars, monitorVars, resolverVars, callArgs>>

NextClassify == CallDetermineTransactionType

SpecClassify == InitClassify /\ [][NextClassify]_vars

----------------------------------------------------------------------------
(* fetchWithRetry: arena-socials.ts:36-79 *)

\* how one call of fetch ends: a 2xx response, a 404 response, a response
\* with another status, a rejection, or the abort of the attempt's timer
FetchOutcomes == {"ok", "404", "status", "error", "abort"}

NoError == "null"

\* line 71: Math.min(1000 * Math.pow(2, attempt - 1), 3000)
RetryDelay(attempt) ==
  IF RetryBaseDelay * Pow2(attempt - 1) < RetryMaxDelay
  THEN RetryBaseDelay * Pow2(attempt - 1)
  ELSE RetryMaxDelay

\* lines 55-63: response.ok, or response.status === 404
ReturnsResponse_OnlyOk(outcome) == outcome = "ok"
ReturnsResponse(outcome) == outcome \in {"ok", "404"}

\* lines 39-48 and 78: the loop test before attempt number attempt; the
\* attempt sets its timer and issues the request, or the function throws
EnterAttempt(s, attempt, maxRetries) ==
  IF attempt <= maxRetries
  THEN [s EXCEPT !.pc = "fetch", !.attempt = attempt,
                 !.trace = Append(@, [e |-> "attempt", k |-> attempt,
                                      timeoutMs |-> AttemptTimeoutBase
                                                      + attempt * AttemptTimeoutStep])]
  ELSE [s EXCEPT !.pc = "threw", !.attempt = attempt,
                 !.thrown = IF s.lastError = NoError THEN "Failed after attempts"
                            ELSE s.lastError]

\* lines 36-48: the call up to its first await
CallFetchWithRetry ==
  /\ callResult = Pending
  /\ callResult' = EnterAttempt([pc |-> "call", attempt |-> 0, lastError |-> NoError,
                                 trace |-> <<>>, response |-> "none", thrown |-> "none"],
                                1, callArgs.maxRetries)
  /\ UNCHANGED <<pipelineVars, tierVars, routeVars, monitorVars, resolverVars, callArgs>>

\* lines 48-76: the request of the attempt settles
FetchSettled(outcome) ==
  /\ ~IsNull(callResult) /\ callResult # Pending /\ callResult.pc = "fetch"
  /\ LET s == [callResult EXCEPT
                 !.trace = Append(@, [e |-> "settled", k |-> callResult.attempt,
                                      outcome |-> outcome])]
     IN callResult' =
          IF ReturnsResponse(outcome)
          THEN [s EXCEPT !.pc = "returned", !.response = outcome]
          ELSE IF outcome = "status"
               THEN EnterAttempt(s, s.attempt + 1, callArgs.maxRetries)
               ELSE LET t == [s EXCEPT !.lastError = outcome]
                    IN IF t.attempt < callArgs.maxRetries
                       THEN [t EXCEPT !.pc = "wait",
                                      !.trace = Append(@, [e |-> "wait", k |-> t.attempt,
                                                           ms |-> RetryDelay(t.attempt)])]
                       ELSE EnterAttempt(t, t.attempt + 1, callArgs.maxRetries)
  /\ UNCHANGED <<pipelineVars, tierVars, routeVars, monitorVars, resolverVars, callArgs>>

\* line 73: the timer of the wait fires
RetryDelayElapsed ==
  /\ ~IsNull(callResult) /\ callResult # Pending /\ callResult.pc = "wait"
  /\ callResult' = EnterAttempt(callResult, callResult.attempt + 1, callArgs.maxRetries)
  /\ UNCHANGED <<pipelineVars, tierVars, routeVars, monitorVars, resolverVars, callArgs>>

InitRetry ==
  /\ InitPipeline
  /\ creators = EmptyMap
  /\ InitTierIdle
  /\ InitMonitorIdle
  /\ InitResolverIdle
  /\ callArgs \in [maxRetries : 0..MaxMaxRetries]
  /\ callResult = Pending

NextRetry ==
  \/ CallFetchWithRetry
  \/ \E outcome \in FetchOutcomes : FetchSettled(outcome)
  \/ RetryDelayElapsed

\* every request settles, by its response, its rejection or the abort of the
\* attempt's timer (lines 44-46), and every timer of a wait fires
FairRetry == WF_vars(NextRetry)

SpecRetry == InitRetry /\ [][NextRetry]_vars /\ FairRetry

----------------------------------------------------------------------------
(* Profiles of a batch of creators: fetchMultipleArenaProfiles              *)
(* (arena-socials.ts:524-560) and the backfill of fetchContractTransactions *)
(* (blockchain.ts:629-661)                                                  *)

\* what fetchArenaUserProfile resolves to: a profile, or null after a failure
BatchProfiles == {Null, [username |-> "alice", isArenaChampion |-> FALSE]}

RECURSIVE SeqsUpTo(_, _)
\* the lists over S of length at most n
SeqsUpTo(S, n) ==
  IF n = 0 THEN {<<>>}
  ELSE LET shorter == SeqsUpTo(S, n - 1)
       IN shorter \cup {Append(q, x) : q \in {r \in shorter : Len(r) = n - 1}, x \in S}

\* lines 533-539: batch = walletAddresses.slice(i, i + batchSize), and
\* batch.map starts fetchArenaUserProfile for each of its addresses
BatchIndexes(i, length) ==
  {j \in 1..length : i < j /\ j <= i + batchSize}

\* a call in which nothing has been started yet
NewBatchCall ==
  [pc |-> "call", i |-> 0, inFlight |-> {}, settled |-> EmptyMap, results |-> EmptyMap]

\* fetchMultipleArenaProfiles(walletAddresses) up to its first await, lines
\* 527-541: the loop is not entered for an empty list
CallFetchMultipleArenaProfiles ==
  /\ callResult = Pending /\ callArgs.mode = "batch"
  /\ callResult' =
       IF Len(callArgs.addresses) = 0
       THEN [NewBatchCall EXCEPT !.pc = "returned"]
       ELSE [NewBatchCall EXCEPT !.pc = "group",
                                 !.inFlight = BatchIndexes(0, Len(callArgs.addresses))]
  /\ UNCHANGED <<pipelineVars, tierVars, routeVars, monitorVars, resolverVars, callArgs>>

\* blockchain.ts lines 630-656: tokenCreations.map starts fetchCreatorProfile
\* for every creation of the list, then Promise.allSettled is awaited
CallFetchContractTransactions ==
  /\ callResult = Pending /\ callArgs.mode = "backfill"
  /\ callResult' =
       IF Len(callArgs.addresses) = 0
       THEN [NewBatchCall EXCEPT !.pc = "returned"]
       ELSE [NewBatchCall EXCEPT !.pc = "all",
                                 !.inFlight = 1..Len(callArgs.addresses)]
  /\ UNCHANGED <<pipelineVars, tierVars, routeVars, monitorVars, resolverVars, callArgs>>

\* fetchArenaUserProfile settles for the address at index j.  In the
\* backfill the continuation sets tx.creatorProfile (line 641); in the batch
\* lookup the value waits for Promise.allSettled
ProfileSettled(j, profile) ==
  /\ callResult # Pending /\ ~IsNull(callResult)
  /\ callResult.pc \in {"group", "all"}
  /\ j \in callResult.inFlight
  /\ callResult' =
       [callResult EXCEPT
          !.inFlight = @ \ {j},
          !.settled = MapSet(@, j, profile),
          !.results = IF callResult.pc = "all" THEN MapSet(@, j, profile) ELSE @]
  /\ UNCHANGED <<pipelineVars, tierVars, routeVars, monitorVars, resolverVars, callArgs>>

RECURSIVE SetResults(_, _, _, _)
\* lines 543-551: settled.forEach in the order of the batch
SetResults(results, addresses, settled, indexes) ==
  IF indexes = {} THEN results
  ELSE LET j == CHOOSE x \in indexes : \A y \in indexes : x <= y
       IN SetResults(MapSet(results, ToLowerCase(addresses[j]), settled[j]),
                     addresses, settled, indexes \ {j})

\* Promise.allSettled of a group resolves, lines 541-556
GroupSettled ==
  /\ callResult # Pending /\ ~IsNull(callResult)
  /\ callResult.pc = "group" /\ callResult.inFlight = {}
  /\ LET n == Len(callArgs.addresses)
         results == SetResults(callResult.results, callArgs.addresses, callResult.settled,
                               BatchIndexes(callResult.i, n))
     IN callResult' =
          [callResult EXCEPT !.results = results,
                             !.pc = IF callResult.i + batchSize < n THEN "pause"
                                    ELSE "returned"]
  /\ UNCHANGED <<pipelineVars, tierVars, routeVars, monitorVars, resolverVars, callArgs>>

\* line 555: the pause between two groups is over, the next group starts
PauseElapsed ==
  /\ callResult # Pending /\ ~IsNull(callResult)
  /\ callResult.pc = "pause"
  /\ callResult' =
       [callResult EXCEPT !.pc = "group",
                          !.i = @ + batchSize,
                          !.inFlight = BatchIndexes(callResult.i + batchSize,
                                                    Len(callArgs.addresses))]
  /\ UNCHANGED <<pipelineVars, tierVars, routeVars, monitorVars, resolverVars, callArgs>>

\* blockchain.ts lines 656-664: Promise.allSettled of the backfill resolves
AllSettled ==
  /\ callResult # Pending /\ ~IsNull(callResult)
  /\ callResult.pc = "all" /\ callResult.inFlight = {}
  /\ callResult' = [callResult EXCEPT !.pc = "returned"]
  /\ UNCHANGED <<pipelineVars, tierVars, routeVars, monitorVars, resolverVars, callArgs>>

InitBatch ==
  /\ InitPipeline
  /\ creators = EmptyMap
  /\ InitTierIdle
  /\ InitMonitorIdle
  /\ InitResolverIdle
  /\ callArgs \in [mode : {"batch", "backfill"},
                    addresses : SeqsUpTo(ResolverAddresses, MaxAddresses)]
  /\ callResult = Pending

NextBatch ==
  \/ CallFetchMultipleArenaProfiles
  \/ CallFetchContractTransactions
  \/ \E j \in 1..MaxAddresses, profile \in BatchProfiles : ProfileSettled(j, profile)
  \/ GroupSettled
  \/ PauseElapsed
  \/ AllSettled

SpecBatch == InitBatch /\ [][NextBatch]_vars

----------------------------------------------------------------------------
(* Claims about the tier rule *)

\* the reference tier: champion flag first, then followers >= 5000 or a
\* ticket price of at least 1.5 * 10^18 wei, a missing field counting as 0
ReferenceTier(p) ==
  IF Field(p, "isArenaChampion", FALSE) THEN "champion"
  ELSE IF \/ Field(p, "followerCount", 0) >= 5000
          \/ WeiGE(Field(p, "keyPrice", <<0, 0>>), <<1500000000, 0>>)
       THEN "heavy-hitter"
       ELSE "regular"

\* C4: the tier computed for a profile, by processTokenCreation and by the
\* Discord route, equals the reference tier: champion if the champion flag is
\* true; otherwise heavy-hitter iff followers >= 5000 or ticket price >= 1.5
\* native units (1.5 * 10^18 wei); otherwise regular.
C4_TierEqualsReference ==
  /\ tierPostType # "none" => tierPostType = ReferenceTier(tierProfile)
  /\ tierChannel # "none" => tierChannel = ReferenceTier(tierProfile)

\* the webhooks from a tier's own downwards, in precedence order
WebhooksFrom(tier) ==
  CASE tier = "champion" ->
         <<"DISCORD_WEBHOOK_CHAMPIONS", "DISCORD_WEBHOOK_HEAVY_HITTERS",
           "DISCORD_WEBHOOK_GENERAL">>
    [] tier = "heavy-hitter" ->
         <<"DISCORD_WEBHOOK_HEAVY_HITTERS", "DISCORD_WEBHOOK_GENERAL">>
    [] OTHER -> <<"DISCORD_WEBHOOK_GENERAL">>

\* the first of them that is set
FirstSetWebhook(tier, e) ==
  LET ws == WebhooksFrom(tier)
      set == {i \in 1..Len(ws) : ws[i] \in e}
  IN ws[CHOOSE i \in set : \A j \in set : i <= j]

\* C11: the endpoint a Discord post uses is the champion webhook for a
\* champion, the heavy-hitter webhook for a non-champion heavy-hitter and the
\* general webhook for a regular creator; when the webhook of the creator's
\* tier is unset, the post goes to the next lower-precedence webhook that is
\* set instead of failing.
C11_WebhookFallsBackToNextSet ==
  (tierChannel # "none" /\ \E i \in 1..Len(WebhooksFrom(tierChannel)) :
                              WebhooksFrom(tierChannel)[i] \in env)
    => webhookUrl = FirstSetWebhook(tierChannel, env)

----------------------------------------------------------------------------
(* Claims about the dispatcher *)

Runs == 1..Len(runs)

SameEvent(p, q) ==
  /\ runs[p].tx.hash = runs[q].tx.hash
  /\ runs[p].tx.from = runs[q].tx.from
  /\ runs[p].tx.symbol = runs[q].tx.symbol

ArenaEntryPosted(t) ==
  ArenaKey(t) \in DOMAIN arenaPostCache /\ arenaPostCache[ArenaKey(t)].posted

DiscordEntryPosted(t) ==
  DiscordKey(t) \in DOMAIN discordPostCache /\ discordPostCache[DiscordKey(t)].posted

ArenaFlag(h) ==
  h \in DOMAIN contract_transactions /\ contract_transactions[h].posted_to_arena

DiscordFlag(h) ==
  h \in DOMAIN contract_transactions /\ contract_transactions[h].posted_to_discord

\* C1: when processTokenCreation is called twice in sequence for the same
\* event and the first call posted successfully to a channel, the second call
\* makes no outbound post to that channel, whatever the persistence calls did.
\* (Under SpecSeq a call of lower index has returned before the next starts.)
C1_SecondCallPostsNothing ==
  \A p \in Runs, q \in Runs :
    p < q /\ SameEvent(p, q) =>
      /\ runs[p].arenaPosted => runs[q].arenaCalls = 0
      /\ runs[p].discordPosted => runs[q].discordCalls = 0

\* C2: the two runs that the poller's two deliveries of one creation
\* transaction start give each channel at most one successful post, under
\* every interleaving.
C2_AtMostOnePostPerChannel ==
  \A d \in 1..Len(detections) :
    /\ Cardinality({r \in Runs : runs[r].origin = d /\ runs[r].arenaPosted}) <= 1
    /\ Cardinality({r \in Runs : runs[r].origin = d /\ runs[r].discordPosted}) <= 1

\* C3: for a wallet without a creator record, no run triggered by the poller's
\* handling of its first creation transaction calls the profile resolver or
\* attempts an Arena or Discord post.
C3_FirstCreationNeverDispatches ==
  \A r \in Runs :
    runs[r].origin # 0 /\ detections[runs[r].origin].newWallet =>
      /\ runs[r].profileCalls = 0
      /\ runs[r].arenaCalls = 0
      /\ runs[r].discordCalls = 0

\* C5: a run that tiers its creator regular never calls the Arena channel; the
\* step that determines the tier marks the Arena cache entry of the event key
\* as posted, and no step of the run changes the persisted posted_to_arena.
C5_RegularNeverPostsToArena ==
  [][\A r \in 1..Len(runs) :
       runs'[r].postType = "regular" =>
         /\ runs'[r].arenaCalls = 0
         /\ runs[r].postType = "none" =>
              /\ ArenaKey(runs[r].tx) \in DOMAIN arenaPostCache'
              /\ arenaPostCache'[ArenaKey(runs[r].tx)].posted
              /\ arenaPostCache'[ArenaKey(runs[r].tx)].postType = "regular"
         /\ runs'[r] # runs[r] =>
              \A h \in DOMAIN contract_transactions :
                contract_transactions'[h].posted_to_arena =
                  contract_transactions[h].posted_to_arena]_vars

C5_Witness ==
  \E r \in Runs :
    /\ Done(r) /\ runs[r].postType = "regular" /\ runs[r].contracts > 1
    /\ ArenaEntryPosted(runs[r].tx)
    /\ runs[r].tx.hash \in DOMAIN contract_transactions
    /\ ~ArenaFlag(runs[r].tx.hash)
    /\ runs[r].discordPosted

NoProfileRun(r) ==
  /\ Done(r)
  /\ runs[r].contracts > 1
  /\ runs[r].profileCalls = 1
  /\ ~runs[r].resolved

CreatorUpdatedBy(r) ==
  /\ runs[r].creatorId # NoId
  /\ runs[r].tx.from \in DOMAIN creators
  /\ creators[runs[r].tx.from].contracts_created >= runs[r].contracts

\* C7: with contractsCreated > 1 and no profile from the resolver, no Arena or
\* Discord post is attempted and no tier computed, yet the transaction record
\* is saved and the creator aggregate updated.
C7_NoProfileStillPersisted ==
  \A r \in Runs :
    NoProfileRun(r) =>
      /\ runs[r].arenaCalls = 0 /\ runs[r].discordCalls = 0
      /\ runs[r].postType = "none"
      /\ runs[r].tx.hash \in DOMAIN contract_transactions
      /\ CreatorUpdatedBy(r)

NoArenaSuccessBefore(q) ==
  \A p \in Runs : p < q /\ SameEvent(p, q) => ~runs[p].arenaPosted

NoDiscordSuccessBefore(q) ==
  \A p \in Runs : p < q /\ SameEvent(p, q) => ~runs[p].discordPosted

\* a later call of the same event that reaches a channel attempts it again
\* when an earlier call failed there and none has succeeded
LaterCallRetries ==
  \A p \in Runs, q \in Runs :
    p < q /\ SameEvent(p, q) /\ Done(q) =>
      /\ ( /\ runs[p].arenaCalls > 0
           /\ NoArenaSuccessBefore(q)
           /\ runs[q].postType \in {"champion", "heavy-hitter"} )
         => runs[q].arenaCalls > 0
      /\ ( /\ runs[p].discordCalls > 0
           /\ NoDiscordSuccessBefore(q)
           /\ runs[q].resolved )
         => runs[q].discordCalls > 0

\* C8: a post attempt that fails leaves the cache entry and the persisted flag
\* of its channel as they were, and a later call for the same event that
\* reaches that channel attempts it again.
C8_FailedPostIsRetried ==
  [][/\ \A r \in 1..Len(runs) :
          /\ runs'[r].arenaCalls > runs[r].arenaCalls /\ ~runs'[r].arenaPosted
               => /\ arenaPostCache' = arenaPostCache
                  /\ contract_transactions' = contract_transactions
          /\ runs'[r].discordCalls > runs[r].discordCalls /\ ~runs'[r].discordPosted
               => /\ discordPostCache' = discordPostCache
                  /\ contract_transactions' = contract_transactions
     /\ LaterCallRetries']_vars

C8_Witness ==
  \E p \in Runs, q \in Runs :
    /\ p < q /\ SameEvent(p, q) /\ Done(q)
    /\ runs[p].arenaCalls = 1 /\ ~runs[p].arenaPosted
    /\ runs[p].discordCalls = DiscordMaxRetries /\ ~runs[p].discordPosted
    /\ runs[q].arenaCalls = 1
    /\ runs[q].discordCalls >= 1

\* C9: when a post to a channel has succeeded, on return from the call both
\* layers are marked posted for that channel: the cache entry of the event key
\* and the persisted flag on the transaction record.
C9_SuccessMarksBothLayers ==
  \A r \in Runs :
    Done(r) =>
      /\ runs[r].arenaPosted =>
           ArenaEntryPosted(runs[r].tx) /\ ArenaFlag(runs[r].tx.hash)
      /\ runs[r].discordPosted =>
           DiscordEntryPosted(runs[r].tx) /\ DiscordFlag(runs[r].tx.hash)

\* C10: no outbound attempt is started on a channel while the cache holds an
\* unexpired posted entry for the channel's key, whatever the persisted flag
\* says and also when the transaction record could not be read.
C10_CachedEntrySuppressesAttempt ==
  [][\A r \in 1..Len(runs) :
       /\ runs[r].pc # "arenaPost" /\ runs'[r].pc = "arenaPost"
            => ~WasPostAlreadySent(arenaPostCache, ArenaKey(runs[r].tx), now)
       /\ runs[r].pc # "discordPost" /\ runs'[r].pc = "discordPost"
            => ~WasPostAlreadySent(discordPostCache, DiscordKey(runs[r].tx), now)]_vars

----------------------------------------------------------------------------
(* Claims about the poller *)

\* C12: if stop is called while a tick is awaiting a chain request, then
\* after stop returns nothing from that tick takes effect: no event of that
\* tick is delivered to a subscriber, no enrichment (processTokenCreation or
\* profile fetch) is triggered by it, and no further tick is scheduled by it.
C12_StoppedTickHasNoEffect ==
  /\ \A k \in 1..Len(ticks) : ticks[k].stopped => ~ticks[k].scheduled
  /\ \A d \in 1..Len(detections) : ~detections[d].afterStop
  /\ \A p \in delivered : ~detections[p[2]].afterStop
  /\ \A r \in 1..Len(runs) :
       runs[r].origin # 0 => ~detections[runs[r].origin].afterStop

\* C13: in every reachable state in which the poller is not running, the
\* status snapshot reports cursor 0 and there is no pending poll timer, also
\* after a tick that finishes after stop.
C13_IdlePollerHasNoCursorNoTimer ==
  ~getMonitoringStatus.isMonitoring =>
    /\ getMonitoringStatus.lastProcessedBlock = <<"0">>
    /\ pendingTimeouts = {}

\* C14: in every reachable state a non-empty subscriber list implies that the
\* poller is running, and every step that leaves the running state (explicit
\* stop, last unsubscribe) leaves the subscriber list empty.
C14_SubscribersImplyRunning ==
  /\ [](monitoringCallbacks # <<>> => isMonitoring)
  /\ [][(isMonitoring /\ ~isMonitoring') => monitoringCallbacks' = <<>>]_vars

\* a subscriber was added to an idle poller that had been stopped before
C14_Witness ==
  /\ monitoringCallbacks # <<>>
  /\ isMonitoring
  /\ \E k \in 1..Len(ticks) : ticks[k].stopped

\* list is rest with callback put back at one position
RemovedOne(list, callback, rest) ==
  \E i \in 1..Len(list) :
    /\ list[i] = callback
    /\ rest = [j \in 1..(Len(list) - 1) |-> IF j < i THEN list[j] ELSE list[j + 1]]

\* C15: calling the function returned by subscribe removes exactly that
\* callback from the subscriber list (one registration of it, and nothing
\* when it is no longer in the list); if other callbacks remain, the poller
\* keeps running with its cursor unchanged and they stay subscribed; if none
\* remains, the poller is stopped: running false, the timer handle cleared
\* and released, cursor 0.
C15_UnsubscribeRemovesThatCallback ==
  [][\A c \in Callbacks :
       Unsubscribe(c) =>
         /\ IF \E i \in 1..Len(monitoringCallbacks) : monitoringCallbacks[i] = c
            THEN RemovedOne(monitoringCallbacks, c, monitoringCallbacks')
            ELSE monitoringCallbacks' = monitoringCallbacks
         /\ monitoringCallbacks' # <<>> =>
              /\ isMonitoring /\ isMonitoring'
              /\ lastProcessedBlock' = lastProcessedBlock
              /\ UNCHANGED <<pendingTimeouts, monitoringTimeout>>
         /\ monitoringCallbacks' = <<>> =>
              /\ ~isMonitoring'
              /\ lastProcessedBlock' = 0
              /\ monitoringTimeout' = 0
              /\ monitoringTimeout \notin pendingTimeouts']_vars

\* a callback was unsubscribed while another one remains, with the poller
\* past its first tick
C15_Witness ==
  /\ \E c \in Callbacks :
       /\ unsubscribe[c] = "called"
       /\ \A i \in 1..Len(monitoringCallbacks) : monitoringCallbacks[i] # c
  /\ monitoringCallbacks # <<>>
  /\ isMonitoring
  /\ lastProcessedBlock # 0

\* C16: in a steady-state tick every transaction of a scanned block whose
\* recipient equals the tracked contract address, compared case-insensitively,
\* is classified and handed to notifyCallbacks as an event of its kind,
\* whatever that kind is.
C16_EveryContractTransactionIsDelivered ==
  \A h \in scanned : \E d \in 1..Len(detections) : detections[d].hash = h

\* C22: on the first tick after a start (cursor 0), the cursor is set to chain
\* head minus one, no block is fetched, no event is delivered and the next
\* tick is scheduled; blocks up to and including head-1 are never scanned in
\* this session, and the block `head` is scanned by a later tick.
C22_FirstTickOnlySetsCursor ==
  [][ \A k \in TickIds :
        (k <= Len(ticks) /\ ticks[k].first /\ BlockNumberReturned(k, FALSE)) =>
          /\ lastProcessedBlock' = chainHead - 1
          /\ ticks'[k].pc = "done" /\ ticks'[k].scheduled
          /\ k \in pendingTimeouts'
          /\ scanned' = scanned /\ detections' = detections /\ delivered' = delivered
    ]_vars

\* C23: in a steady-state tick that reads head > cursor, a block fetch is
\* issued for exactly the block numbers cursor+1 .. head, in ascending order
\* and once each; a failure while fetching or processing one block does not
\* prevent the later blocks of the batch from being processed; when the batch
\* ends the cursor equals the head value read at the start of the tick, so a
\* block that failed is not fetched again.
C23_BatchIsCursorPlusOneToHead ==
  [][ \A k \in TickIds :
        k <= Len(ticks) =>
          LET t == ticks[k]
              u == ticks'[k]
          IN \* the batch begins at cursor + 1 and ends at the head just read
             /\ (t.pc = "head" /\ u.pc = "block") =>
                  /\ chainHead > lastProcessedBlock
                  /\ u.blockNum = lastProcessedBlock + 1
                  /\ u.latestBlock = chainHead
             /\ (t.pc = "head" /\ lastProcessedBlock # 0 /\ chainHead > lastProcessedBlock
                   /\ BlockNumberReturned(k, FALSE)) => u.pc = "block"
             \* a fetch that settles, with or without an error, is followed by
             \* the fetch of the next number, or ends the batch at the head
             /\ \A err \in BOOLEAN :
                  (t.pc = "block" /\ BlockReturned(k, err)) =>
                    IF t.blockNum < t.latestBlock
                    THEN /\ u.latestBlock = t.latestBlock
                         /\ \/ u.pc = "block" /\ u.blockNum = t.blockNum + 1
                            \/ u.pc = "delay" /\ u.blockNum = t.blockNum
                         /\ lastProcessedBlock' = lastProcessedBlock
                    ELSE /\ u.pc = "done"
                         /\ lastProcessedBlock' = t.latestBlock
             /\ (t.pc = "delay" /\ u.pc # "delay") =>
                  /\ u.pc = "block" /\ u.blockNum = t.blockNum + 1
                  /\ u.latestBlock = t.latestBlock
             \* no other fetch is issued by the tick
             /\ (t.pc \in {"block", "delay"} /\ u.pc = "block") =>
                  u.blockNum \in {t.blockNum, t.blockNum + 1} /\ u.blockNum <= t.latestBlock
             /\ (t.pc = "done") => u.pc = "done"
    ]_vars

\* a tick is fetching the second block of its batch after the fetch of the
\* first one failed, and the chain has grown since the tick read the head
C23_Witness ==
  \E k \in 1..Len(ticks) :
    /\ ticks[k].pc = "block"
    /\ ticks[k].blockNum = FirstHead + 1
    /\ ticks[k].latestBlock = FirstHead + 1
    /\ lastProcessedBlock = FirstHead - 1
    /\ scanned = {}

\* calls of monitorContract that have not returned
TicksInFlight == {k \in 1..Len(ticks) : ticks[k].pc # "done"}

\* C24: after any sequence of start, stop, subscribe and unsubscribe calls,
\* including calls made while a tick is suspended on a chain request, at most
\* one polling chain exists: the number of ticks in flight plus the number of
\* pending poll timers is never greater than one.
C24_AtMostOnePollingChain ==
  Cardinality(TicksInFlight) + Cardinality(pendingTimeouts) <= 1

\* C25: a subscriber callback that throws during a delivery does not prevent
\* delivery of the same event to the remaining subscribers, does not prevent
\* the enrichment trigger for a creation event, and changes neither the
\* cursor nor the scheduling of the next tick.
C25_ThrowingSubscriberIsContained ==
  [][ \A throwers \in SUBSET ThrowingCallbacks :
        notifyCallbacks(throwers) =>
          LET d == Head(timers)
          IN /\ \A i \in 1..Len(monitoringCallbacks) :
                  <<monitoringCallbacks[i], d, monitoringCallbacks[i] \in throwers>>
                    \in delivered'
             /\ Len(runs') = Len(runs) + 1
             /\ runs'[Len(runs')].origin = d
             /\ runs'[Len(runs')].tx.hash = detections[d].hash
             /\ UNCHANGED <<lastProcessedBlock, isMonitoring, monitoringTimeout,
                            pendingTimeouts, ticks, monitoringCallbacks>>
    ]_vars

\* the first of two subscribers threw on an event that the second one
\* received, and the event went on to processTokenCreation
C25_Witness ==
  /\ monitoringCallbacks = <<"b", "a">>
  /\ \E d \in 1..Len(detections) :
       /\ <<"b", d, TRUE>> \in delivered
       /\ <<"a", d, FALSE>> \in delivered
       /\ \E r \in 1..Len(runs) : runs[r].origin = d

\* C26: while the poller is running and stop is never called, every tick is
\* followed by another scheduled tick, whether it processed blocks, found no
\* new block, or failed reading the chain head or a block; hence, under
\* fairness, if the chain head stays at H the cursor eventually equals H.
C26_EveryTickSchedulesTheNext ==
  /\ [][ \A k \in TickIds :
           (k <= Len(ticks) /\ ticks[k].pc # "done" /\ ticks'[k].pc = "done") =>
             /\ isMonitoring'
             /\ k \in pendingTimeouts'
             /\ monitoringTimeout' = k ]_vars
  /\ (isMonitoring ~> (isMonitoring /\ lastProcessedBlock = chainHead))

\* the fetch of the first block of the session failed, the tick went on, and
\* the cursor has reached the head with the next tick scheduled
C26_Witness ==
  /\ isMonitoring
  /\ chainHead = MaxBlock
  /\ lastProcessedBlock = chainHead
  /\ scanned = {"0xh2"}
  /\ pendingTimeouts # {}

HashesProcessedFor(w) ==
  {runs[r].tx.hash : r \in {q \in 1..Len(runs) : runs[q].tx.from = w}}

\* C32: a creator's contracts_created counts distinct creation transaction
\* hashes: starting from no row, it never exceeds the number of distinct
\* hashes processed for the wallet, so processing a hash again (the second
\* delivery of the same event) leaves it unchanged.
C32_OneCountPerDistinctHash ==
  \A w \in DOMAIN creators :
    creators[w].contracts_created <= Cardinality(HashesProcessedFor(w))

\* run r took the update branch of addCreatorContract and its update
\* returned without an error
UpdatedCreator(r) ==
  /\ ~IsNull(runs[r].creator)
  /\ runs[r].creatorId # NoId
  /\ runs[r].pc \notin {"selectTx", "saveTx", "addCreatorSelect", "addCreatorUpdate"}

\* C33: when two different creation transactions of the same existing
\* creator are processed concurrently and both updates of addCreatorContract
\* succeed, contracts_created ends at the value before the two plus two and,
\* the symbols being different, both tickers are in the list.
C33_ConcurrentCreationsBothCounted ==
  \A p \in 1..Len(runs) : \A q \in 1..Len(runs) :
    (/\ Len(runs) = 2 /\ p < q
     /\ runs[p].tx.from = runs[q].tx.from
     /\ runs[p].tx.hash # runs[q].tx.hash
     /\ UpdatedCreator(p) /\ UpdatedCreator(q))
      => LET w == runs[p].tx.from
             a == runs[p].creator.contracts_created
             b == runs[q].creator.contracts_created
             before == IF a < b THEN a ELSE b
             symbols == {creators[w].contract_tickers[i].symbol :
                           i \in 1..Len(creators[w].contract_tickers)}
         IN /\ creators[w].contracts_created = before + 2
            /\ runs[p].tx.symbol # runs[q].tx.symbol =>
                 {runs[p].tx.symbol, runs[q].tx.symbol} \subseteq symbols

\* C34: calling an unsubscribe function whose callback is no longer in the
\* subscriber list changes nothing: running flag, cursor, timer handle,
\* pending timers and subscriber list stay as they are, also when the poller
\* was started again in the meantime.
C34_StaleUnsubscribeChangesNothing ==
  [][\A c \in Callbacks :
       (Unsubscribe(c) /\ IndexOf(monitoringCallbacks, c) = 0) =>
         UNCHANGED <<isMonitoring, lastProcessedBlock, monitoringTimeout,
                     pendingTimeouts, monitoringCallbacks>>]_vars

\* C35: in every reachable state a persisted posted flag that is true on a
\* transaction record implies that a post to that channel for that
\* transaction succeeded earlier; the suppression of the regular tier and a
\* failed post set no persisted flag.
C35_PersistedFlagImpliesPost ==
  \A h \in DOMAIN contract_transactions :
    /\ contract_transactions[h].posted_to_arena =>
         \E r \in 1..Len(runs) : runs[r].tx.hash = h /\ runs[r].arenaPosted
    /\ contract_transactions[h].posted_to_discord =>
         \E r \in 1..Len(runs) : runs[r].tx.hash = h /\ runs[r].discordPosted

\* one delivery of a transaction was suppressed as regular and its Discord
\* post failed, the other posted to Arena as champion or heavy hitter: the
\* record carries the Arena flag and not the Discord flag
C35_Witness ==
  \E p \in 1..Len(runs) : \E q \in 1..Len(runs) :
    LET h == runs[p].tx.hash
    IN /\ runs[q].tx.hash = h /\ p # q
       /\ runs[p].pc = "done" /\ runs[p].postType = "regular"
       /\ runs[p].arenaCalls = 0
       /\ runs[p].discordCalls > 0 /\ ~runs[p].discordPosted
       /\ runs[q].pc = "done" /\ runs[q].arenaPosted
       /\ runs[q].discordCalls > 0 /\ ~runs[q].discordPosted
       /\ h \in DOMAIN contract_transactions
       /\ contract_transactions[h].posted_to_arena
       /\ ~contract_transactions[h].posted_to_discord

\* C36: with the poller started and not stopped, the first tick sets the
\* cursor to a value greater than zero and from then on the cursor never
\* decreases, whatever heads the chain client returns.
C36_CursorPositiveAndNeverDecreases ==
  [][/\ \A k \in TickIds :
          (BlockNumberReturned(k, FALSE) /\ lastProcessedBlock = 0) =>
            lastProcessedBlock' > 0
     /\ lastProcessedBlock > 0 => lastProcessedBlock' >= lastProcessedBlock]_vars

----------------------------------------------------------------------------
(* Claims about the resolver *)

\* C17: resolve(address) contacts the external identity services iff the
\* profile cache has no entry for the lower-cased address that was stored
\* less than the TTL of 5 minutes ago: a lookup at any time >= T + TTL after
\* an entry stored at T is refetched, a lookup before that is served from
\* the cache with no external call, and an entry holding none is served
\* exactly like one holding a profile.
C17_ContactsIffNoFreshEntry ==
  \A c \in 1..Len(resolves) :
    LET r == resolves[c]
    IN /\ r.contacted <=> (r.entryAt = -1 \/ r.lookupTime >= r.entryAt + 300000)
       /\ ~r.contacted => (r.pc = "done" /\ r.result = r.entryProfile)

\* an entry holding none, stored through the other spelling of the address,
\* is looked up exactly one TTL later and refetched
C17_Witness ==
  \E c \in 1..Len(resolves) :
    /\ resolves[c].entryAt >= 0
    /\ resolves[c].lookupTime = resolves[c].entryAt + 300000
    /\ resolves[c].contacted
    /\ IsNull(resolves[c].entryProfile)
    /\ \E b \in 1..(c - 1) : resolves[b].address # resolves[c].address

\* the badge array of a successful stats lookup holds 19 or "19"
HasBadge19(stats) ==
  /\ stats.kind = "ok"
  /\ stats.isArray
  /\ \E i \in 1..Len(stats.badges) :
       \/ stats.badges[i] = [t |-> "number", n |-> 19]
       \/ stats.badges[i] = [t |-> "string", s |-> <<"1", "9">>]

\* the badge array of a successful stats lookup holds a badge type that
\* Number() reads as 19
HasBadgeReadAs19(stats) ==
  /\ stats.kind = "ok"
  /\ stats.isArray
  /\ \E i \in 1..Len(stats.badges) :
       LET n == NumberOf(stats.badges[i])
       IN ~n.nan /\ n.num = 19 * n.den

\* every profile returned has a boolean champion flag
ChampionFlagDefined ==
  \A c \in 1..Len(resolves) :
    (resolves[c].pc = "done" /\ ~IsNull(resolves[c].result)) =>
      /\ "isArenaChampion" \in DOMAIN resolves[c].result
      /\ resolves[c].result.isArenaChampion \in BOOLEAN

\* C18: the champion flag of a resolved profile is true iff stage 3
\* succeeded and its badge array contains an entry whose badge type equals 19
\* as a number or as the string "19"; in every other case it is false.  Every
\* non-none profile returned by resolve has a defined boolean champion flag.
C18_ChampionIffBadge19 ==
  /\ ChampionFlagDefined
  /\ \A c \in 1..Len(resolves) :
       LET r == resolves[c]
       IN (r.pc = "done" /\ r.contacted /\ ~IsNull(r.result)) =>
            (r.result.isArenaChampion <=> HasBadge19(r.stats))

\* C18 as amended: the champion flag of a resolved profile is true iff stage 3
\* succeeded and its badge array contains an entry whose badge type is read
\* as the number 19 by Number(): 19, "19", and also strings such as "19.0",
\* " 19" or "0x13"; in every other case it is false.  Every non-none profile
\* returned by resolve has a defined boolean champion flag.
C18_ChampionIffBadgeReadAs19 ==
  /\ ChampionFlagDefined
  /\ \A c \in 1..Len(resolves) :
       LET r == resolves[c]
       IN (r.pc = "done" /\ r.contacted /\ ~IsNull(r.result)) =>
            (r.result.isArenaChampion <=> HasBadgeReadAs19(r.stats))

\* a profile made champion by a badge type that is a string, served again
\* from the cache
C18_Witness ==
  \E c \in 1..Len(resolves) : \E b \in 1..Len(resolves) :
    /\ resolves[c].pc = "done" /\ resolves[c].contacted
    /\ resolves[c].stats.kind = "ok"
    /\ \E i \in 1..Len(resolves[c].stats.badges) : resolves[c].stats.badges[i].t = "string"
    /\ resolves[c].result.isArenaChampion
    /\ resolves[b].pc = "done" /\ ~resolves[b].contacted
    /\ resolves[b].result.isArenaChampion

\* C27: within one resolve the stage-2 lookup is issued only after stage 1
\* returned a handle and the stage-3 lookup only after stage 2 returned a
\* user id; whatever way a stage ends, the resolve returns (it never raises)
\* the profile built so far, or none, with the champion flag false when the
\* stats were not read, and stores exactly that result in the cache under
\* the lower-cased address.
C27_StagesGatedAndFailuresContained ==
  [][\A c \in 1..Len(resolves) :
       LET r == resolves[c]
           q == resolves'[c]
           key == ToLowerCase(r.address)
       IN /\ q.pc = "step2" => (r.pc \in {"step1", "step2"} /\ q.handle # NoHandle)
          /\ q.pc = "step3" =>
               (r.pc \in {"step2", "step3"} /\ q.handle # NoHandle /\ q.userId)
          /\ (r.pc # "done" /\ q.pc = "done") =>
               /\ q.result = q.profile
               /\ r.pc = "step1" => (q.handle = NoHandle /\ ~q.userId)
               /\ r.pc = "step2" => (~q.userId /\ q.result = WithChampionFalse(r.profile))
               /\ (r.pc = "step3" /\ q.stats.kind # "ok") =>
                    q.result = WithChampionFalse(r.profile)
               /\ ~IsNull(q.result) => q.result.isArenaChampion \in BOOLEAN
               /\ key \in DOMAIN userProfileCache'
               /\ userProfileCache'[key] = [profile |-> q.result, timestamp |-> now]
    ]_vars

\* one resolve stopped at stage 1 with nothing built, another went through
\* the three stages and lost the stats lookup to an exception; both results
\* are what the cache holds
C27_Witness ==
  \E c \in 1..Len(resolves) : \E b \in 1..Len(resolves) :
    /\ resolves[c].pc = "done" /\ resolves[c].contacted
    /\ resolves[c].handle = NoHandle /\ IsNull(resolves[c].result)
    /\ userProfileCache[ToLowerCase(resolves[c].address)].profile = resolves[c].result
    /\ resolves[b].pc = "done" /\ resolves[b].contacted
    /\ resolves[b].userId /\ resolves[b].stats.kind = "throw"
    /\ ~IsNull(resolves[b].result) /\ ~resolves[b].result.isArenaChampion
    /\ userProfileCache[ToLowerCase(resolves[b].address)].profile = resolves[b].result


----------------------------------------------------------------------------
(* Claims about fetchWithRetry *)

\* the events of kind e in the trace of the call
EventsOf(e) ==
  IF callResult = Pending THEN {}
  ELSE {i \in 1..Len(callResult.trace) : callResult.trace[i].e = e}

\* the settled requests whose response fetchWithRetry hands back
Answered ==
  {i \in EventsOf("settled") : callResult.trace[i].outcome \in {"ok", "404"}}

\* what holds of the call at every moment
RetryIsBoundedAndReturnsFirstAnswer ==
  callResult # Pending =>
    /\ Cardinality(EventsOf("attempt")) <= callArgs.maxRetries
    /\ \A i \in EventsOf("attempt") :
         callResult.trace[i].k = Cardinality({j \in EventsOf("attempt") : j <= i})
    /\ \A i \in Answered :
         /\ i = Len(callResult.trace)
         /\ callResult.pc = "returned"
         /\ callResult.response = callResult.trace[i].outcome
    /\ callResult.pc = "returned" => Answered # {}
    /\ callResult.pc = "threw" =>
         /\ Answered = {}
         /\ Cardinality(EventsOf("settled")) = callArgs.maxRetries

\* C28: fetchWithRetry(url, options, maxRetries) terminates after at most
\* maxRetries attempts; it returns the first 2xx response, returns a 404
\* response at once without a further attempt, and throws only when no
\* attempt produced a 2xx or 404 response.
C28_TerminatesWithinMaxRetries ==
  /\ []RetryIsBoundedAndReturnsFirstAnswer
  /\ <>(callResult # Pending /\ callResult.pc \in {"returned", "threw"})

\* a 404 handed back by the third attempt, after a rejection and a 500
C28_Witness ==
  /\ callResult # Pending
  /\ callResult.pc = "returned" /\ callResult.response = "404"
  /\ Cardinality(EventsOf("attempt")) = 3
  /\ \E i, j \in EventsOf("settled") :
       callResult.trace[i].outcome = "error" /\ callResult.trace[j].outcome = "status"

\* C29: between every two consecutive attempts of fetchWithRetry there is a
\* wait, and the wait before attempt k+1 is min(1000 * 2^(k-1), 3000) ms,
\* whether attempt k ended in an exception, a timeout or a response that is
\* neither 2xx nor 404.
C29_WaitBeforeEveryNextAttempt ==
  \A i \in EventsOf("attempt") :
    callResult.trace[i].k > 1 =>
      /\ callResult.trace[i - 1].e = "wait"
      /\ callResult.trace[i - 1].ms =
           (IF 1000 * Pow2(callResult.trace[i].k - 2) < 3000
            THEN 1000 * Pow2(callResult.trace[i].k - 2) ELSE 3000)

----------------------------------------------------------------------------
(* Claims about the batches of profiles *)

\* C31: while the profiles of a batch of creators are resolved, by the batch
\* lookup or by the backfill, at most 3 resolutions are in flight, every
\* address before those in flight has settled and none after them has
\* started, and the returned result has an entry for every input address.
C31_AtMostThreeInFlight ==
  (callResult # Pending) =>
    /\ Cardinality(callResult.inFlight) <= 3
    /\ \A j \in callResult.inFlight :
         /\ \A k \in 1..callResult.i : k \in DOMAIN callResult.settled
         /\ j <= callResult.i + 3
    /\ callResult.pc = "returned" =>
         \A j \in 1..Len(callArgs.addresses) :
           IF callArgs.mode = "batch"
           THEN ToLowerCase(callArgs.addresses[j]) \in DOMAIN callResult.results
           ELSE j \in DOMAIN callResult.results

----------------------------------------------------------------------------
(* Claims about the decoding *)

\* the text is the decimal numeral of n
IsDecimalOf(text, n) ==
  /\ Len(text) >= 1
  /\ AllDigits(text, 10)
  /\ Len(text) = 1 \/ text[1] # "0"
  /\ ParseDigits(text, 10) = n

\* the same 20 bytes
SameAddress(a, b) == toLowerCase(a) = toLowerCase(b)

\* C19: for all valid format-A (selector 0x0b8c6fec: name, symbol,
\* totalSupply, taxPercentage) and format-B (selector 0x30f51a46: nine
\* parameters) creation call data, decodeTokenCreationData applied to
\* selector + ABI encoding returns exactly the encoded name, symbol and
\* totalSupply (as a decimal string), plus the creator address for format B;
\* for any other selector it returns none.
C19_DecodeReturnsWhatWasEncoded ==
  callResult # Pending =>
    CASE callArgs.format = "A" ->
           /\ DOMAIN callResult = {"name", "symbol", "totalSupply"}
           /\ callResult.name = callArgs.name
           /\ callResult.symbol = callArgs.symbol
           /\ IsDecimalOf(callResult.totalSupply, callArgs.totalSupply)
      [] callArgs.format = "B" ->
           /\ DOMAIN callResult = {"name", "symbol", "totalSupply", "creator"}
           /\ callResult.name = callArgs.name
           /\ callResult.symbol = callArgs.symbol
           /\ IsDecimalOf(callResult.totalSupply, callArgs.totalSupply)
           /\ SameAddress(callResult.creator, callArgs.creator)
      [] callArgs.format = "other" -> IsNull(callResult)
      [] OTHER -> TRUE

\* a format-B call with a name longer than one word and a creator with
\* letters in its address has returned the name and the creator
C19_Witness ==
  /\ callResult # Pending
  /\ callArgs.format = "B"
  /\ Len(callArgs.name) = 33
  /\ callArgs.creator = toLowerCase(ArenaContractChars)
  /\ callArgs.totalSupply = 5000
  /\ ~IsNull(callResult)
  /\ callResult.name = callArgs.name
  /\ callResult.totalSupply = <<"5", "0", "0", "0">>
  /\ callResult.creator = ArenaContractChars

----------------------------------------------------------------------------
(* Claims about the classification *)

InTable(selector) == \E e \in METHOD_SIGNATURES : e.key = selector

\* the text contains the word, in any case of its letters
ContainsWord(text, word) ==
  \E start \in 1..Len(text) :
    /\ start + Len(word) - 1 <= Len(text)
    /\ \A j \in 1..Len(word) : LowerChar(text[start + j - 1]) = word[j]

KindOf(selector, value) ==
  IF InTable(selector)
  THEN (CHOOSE e \in METHOD_SIGNATURES : e.key = selector).type
  ELSE IF \/ ContainsWord(selector, <<"c", "r", "e", "a", "t", "e">>)
          \/ ContainsWord(selector, <<"t", "o", "k", "e", "n">>)
       THEN "TOKEN_CREATION"
       ELSE IF WeiGE(value, <<0, 1>>) THEN "BUY" ELSE "UNKNOWN"

\* C20: determineTransactionType(selector, value): a selector in the lookup
\* table yields that table entry's kind, name and description regardless of
\* value; for a selector not in the table, if its lower-cased text contains
\* "create" or "token" the kind is TOKEN_CREATION, else if value > 0 the kind
\* is BUY, else UNKNOWN; the substring rule takes precedence over the value
\* rule.
C20_ClassificationFollowsTableThenTextThenValue ==
  ~IsNull(callResult) =>
    /\ callResult.type = KindOf(callArgs.methodId, callArgs.value)
    /\ \A e \in METHOD_SIGNATURES :
         e.key = callArgs.methodId =>
           /\ callResult.type = e.type
           /\ callResult.method = [name |-> e.name]
           /\ callResult.description = e.description

\* a text outside the table with "create" in upper case and AVAX sent is
\* classified by the text, not by the value
C20_Witness ==
  /\ ~IsNull(callResult)
  /\ ~InTable(callArgs.methodId)
  /\ WeiGE(callArgs.value, <<0, 1>>)
  /\ ContainsWord(callArgs.methodId, <<"c", "r", "e", "a", "t", "e">>)
  /\ callArgs.methodId # toLowerCase(callArgs.methodId)
  /\ callResult.type = "TOKEN_CREATION"

----------------------------------------------------------------------------
(* Claims about the creators table *)

\* C21: after any sequence of creator updates for a wallet, that creator's
\* ticker list contains no two entries with the same transaction hash and no
\* two entries with the same symbol: an update whose symbol is already
\* present does not append a ticker.
C21_TickersHaveNoDuplicates ==
  \A w \in DOMAIN creators :
    LET tickers == creators[w].contract_tickers
    IN \A i \in 1..Len(tickers) : \A j \in 1..Len(tickers) :
         i # j => /\ tickers[i].transaction_hash # tickers[j].transaction_hash
                  /\ tickers[i].symbol # tickers[j].symbol

====
